---- MODULE Spec2Model ----
(***************************************************************************)
(* A model of soltnet's transaction-template codec (src/src/tx_format):    *)
(* the parameter resolver, the address resolver, the typed-value packer    *)
(* and unpacker, and the native-program step of the decompiler.            *)
(*                                                                         *)
(* Representation.                                                         *)
(*  - A string is a sequence of one-character strings; a byte is 0..255.   *)
(*  - A u64 / usize / i64 magnitude is its sequence of decimal digits,     *)
(*    most significant first, without leading zeros (zero is <<0>>): the   *)
(*    model checker's integers are 32 bits wide, the program's are 64.     *)
(*    Conversions to little-endian bytes, to text and back are computed    *)
(*    by long division, never assumed.                                     *)
(*  - A serde_json::Value is a record tagged by k; each kind keeps its     *)
(*    payload in a field of its own.  An object is a function from its     *)
(*    keys to values (serde_json's Map).                                   *)
(*  - Result<T> is Ok(v) / Err(msg); Option<T> is Some(v) / None.          *)
(***************************************************************************)
EXTENDS Integers, Sequences, FiniteSets, TLC

VARIABLES
    op,      \* the function last called ("idle" before any call)
    args,    \* its arguments
    result,  \* what it returned
    packed,  \* the value, the parameters and the bytes of the last successful pack_data
    stored   \* the JSON of the template file at the path in use, None before there is one

vars == <<op, args, result, packed, stored>>

----------------------------------------------------------------------------
(* Result and Option *)

Ok(v) == [ok |-> TRUE, v |-> v]

Err(msg) == [ok |-> FALSE, err |-> msg]

\* a panic: the call unwinds and returns nothing
Panic(msg) == [ok |-> FALSE, panic |-> msg]

Some(v) == [some |-> TRUE, v |-> v]

None == [some |-> FALSE]

----------------------------------------------------------------------------
(* serde_json::Value *)

Null == [k |-> "null"]

Bool(b) == [k |-> "bool", b |-> b]

\* Number::PosInt(u64): digits is the decimal numeral
Num(digits) == [k |-> "num", n |-> "pos", digits |-> digits]

\* Number::NegInt(i64): digits is the numeral of the magnitude
NegNum(digits) == [k |-> "num", n |-> "neg", digits |-> digits]

\* Number::Float(f64) with a fractional part: digits is the integer part
FloatNum(digits) == [k |-> "num", n |-> "float", digits |-> digits]

Str(s) == [k |-> "str", s |-> s]

Arr(items) == [k |-> "arr", a |-> items]

Obj(map) == [k |-> "obj", o |-> map]

IsString(v) == v.k = "str"

IsObject(v) == v.k = "obj"

IsArray(v) == v.k = "arr"

\* Map::get
Get(map, key) == IF key \in DOMAIN map THEN Some(map[key]) ELSE None

\* Map::insert on a clone
Insert(map, key, val) == [x \in (DOMAIN map) \cup {key} |-> IF x = key THEN val ELSE map[x]]

\* Value::as_u64
as_u64(v) == IF v.k = "num" /\ v.n = "pos" THEN Some(v.digits) ELSE None

----------------------------------------------------------------------------
(* Sequences, digits and alphabets *)

Reverse(s) == [i \in 1..Len(s) |-> s[Len(s) + 1 - i]]

Range(s) == {s[i] : i \in 1..Len(s)}

RECURSIVE SumSeq(_)
SumSeq(s) == IF s = <<>> THEN 0 ELSE Head(s) + SumSeq(Tail(s))

Zeros(n) == [i \in 1..n |-> 0]

RECURSIVE StripZeros(_)
StripZeros(digs) ==
    IF digs # <<>> /\ Head(digs) = 0 THEN StripZeros(Tail(digs)) ELSE digs

\* number of leading elements of s equal to x
RECURSIVE LeadingCount(_, _)
LeadingCount(s, x) ==
    IF s # <<>> /\ Head(s) = x THEN 1 + LeadingCount(Tail(s), x) ELSE 0

\* Long division of the base-`from` numeral digs[lo..hi] by d, the
\* remainder r carried in: the quotient digits and the remainder.  The
\* range is halved, so that the evaluation nests as deep as the logarithm
\* of its length.
RECURSIVE LongDiv(_, _, _, _, _, _)
LongDiv(digs, from, d, lo, hi, r) ==
    IF lo > hi THEN [q |-> <<>>, r |-> r]
    ELSE IF lo = hi
    THEN [q |-> <<(r * from + digs[lo]) \div d>>, r |-> (r * from + digs[lo]) % d]
    ELSE LET Right(left) ==
                 LET Join(right) == [q |-> left.q \o right.q, r |-> right.r]
                 IN  Join(LongDiv(digs, from, d, ((lo + hi) \div 2) + 1, hi, left.r))
         IN  Right(LongDiv(digs, from, d, lo, (lo + hi) \div 2, r))

\* At most k divisions by `to` of the numeral st.digs, each remainder
\* appended to st.out, until the numeral is zero; k is halved for the same
\* reason.
RECURSIVE DivPasses(_, _, _, _)
DivPasses(st, from, to, k) ==
    IF st.digs = <<>> THEN st
    ELSE IF k <= 1 THEN
        LET Take(dv) == [digs |-> StripZeros(dv.q), out |-> Append(st.out, dv.r)]
        IN  Take(LongDiv(st.digs, from, to, 1, Len(st.digs), 0))
    ELSE LET Rest(half) == IF half.digs = <<>> THEN half
                           ELSE DivPasses(half, from, to, k - (k \div 2))
         IN  Rest(DivPasses(st, from, to, k \div 2))

\* the digits of the base-`from` numeral digs in base `to`, least significant
\* first, without high zeros (the empty sequence for zero); a digit of one of the
\* bases in use (10, 58, 256) is at most three digits of another
ToBaseLE(digs, from, to) ==
    DivPasses([digs |-> StripZeros(digs), out |-> <<>>], from, to, 3 * Len(digs) + 1).out

\* most significant first
ToBase(digs, from, to) == Reverse(ToBaseLE(digs, from, to))

\* a canonical decimal numeral
Canon(digs) == IF StripZeros(digs) = <<>> THEN <<0>> ELSE StripZeros(digs)

\* a > b on canonical decimal numerals
RECURSIVE LexGreater(_, _)
LexGreater(a, b) ==
    IF a = <<>> THEN FALSE
    ELSE IF Head(a) # Head(b) THEN Head(a) > Head(b)
    ELSE LexGreater(Tail(a), Tail(b))

DecGreater(a, b) ==
    \/ Len(a) > Len(b)
    \/ Len(a) = Len(b) /\ LexGreater(a, b)

\* the integer a short numeral denotes
RECURSIVE DigitsToInt(_, _)
DigitsToInt(digs, acc) ==
    IF digs = <<>> THEN acc ELSE DigitsToInt(Tail(digs), acc * 10 + Head(digs))

\* the canonical numeral of a small integer
RECURSIVE IntToDigitsLE(_)
IntToDigitsLE(n) == IF n = 0 THEN <<>> ELSE <<n % 10>> \o IntToDigitsLE(n \div 10)

IntToDigits(n) == IF n = 0 THEN <<0>> ELSE Reverse(IntToDigitsLE(n))

DecimalChars == <<"0", "1", "2", "3", "4", "5", "6", "7", "8", "9">>

HexChars == <<"0", "1", "2", "3", "4", "5", "6", "7", "8", "9", "a", "b", "c", "d", "e", "f">>

HexUpperChars == <<"0", "1", "2", "3", "4", "5", "6", "7", "8", "9", "A", "B", "C", "D", "E", "F">>

Base58Chars ==
    <<"1", "2", "3", "4", "5", "6", "7", "8", "9", "A", "B", "C", "D", "E", "F", "G", "H", "J",
      "K", "L", "M", "N", "P", "Q", "R", "S", "T", "U", "V", "W", "X", "Y", "Z", "a", "b", "c",
      "d", "e", "f", "g", "h", "i", "j", "k", "m", "n", "o", "p", "q", "r", "s", "t", "u", "v",
      "w", "x", "y", "z">>

Base64Chars ==
    <<"A", "B", "C", "D", "E", "F", "G", "H", "I", "J", "K", "L", "M", "N", "O", "P", "Q", "R",
      "S", "T", "U", "V", "W", "X", "Y", "Z", "a", "b", "c", "d", "e", "f", "g", "h", "i", "j",
      "k", "l", "m", "n", "o", "p", "q", "r", "s", "t", "u", "v", "w", "x", "y", "z", "0", "1",
      "2", "3", "4", "5", "6", "7", "8", "9", "+", "/">>

\* the value (from 0) of character c in an alphabet that holds it
CharIndex(alphabet, c) == (CHOOSE i \in 1..Len(alphabet) : alphabet[i] = c) - 1

AllIn(s, alphabet) == \A i \in 1..Len(s) : s[i] \in Range(alphabet)

\* u64::to_string, usize Display
DigitsToStr(digs) == [i \in 1..Len(digs) |-> DecimalChars[digs[i] + 1]]

StrToDigits(s) == [i \in 1..Len(s) |-> CharIndex(DecimalChars, s[i])]

----------------------------------------------------------------------------
(* Integers of the program: parsing, casts, byte order *)

U64_MAX == <<1, 8, 4, 4, 6, 7, 4, 4, 0, 7, 3, 7, 0, 9, 5, 5, 1, 6, 1, 5>>

I64_MAX == <<9, 2, 2, 3, 3, 7, 2, 0, 3, 6, 8, 5, 4, 7, 7, 5, 8, 0, 7>>

I64_MIN_MAGNITUDE == <<9, 2, 2, 3, 3, 7, 2, 0, 3, 6, 8, 5, 4, 7, 7, 5, 8, 0, 8>>

\* str::parse::<u64>() and str::parse::<usize>(): an optional '+', then one
\* or more decimal digits (leading zeros allowed); None on anything else and
\* on overflow
parse_unsigned(s) ==
    LET body == IF s # <<>> /\ Head(s) = "+" THEN Tail(s) ELSE s
    IN  IF body = <<>> \/ ~AllIn(body, DecimalChars) THEN None
        ELSE LET n == Canon(StrToDigits(body))
             IN  IF DecGreater(n, U64_MAX) THEN None ELSE Some(n)

\* str::parse::<i64>(): an optional '+' or '-', then decimal digits
parse_i64(s) ==
    LET neg  == s # <<>> /\ Head(s) = "-"
        body == IF s # <<>> /\ Head(s) \in {"+", "-"} THEN Tail(s) ELSE s
    IN  IF body = <<>> \/ ~AllIn(body, DecimalChars) THEN None
        ELSE LET n == Canon(StrToDigits(body))
             IN  IF DecGreater(n, IF neg THEN I64_MIN_MAGNITUDE ELSE I64_MAX)
                 THEN None
                 ELSE Some([neg |-> neg /\ n # <<0>>, digits |-> n])

\* Value::as_i64
as_i64(v) ==
    IF v.k # "num" THEN None
    ELSE IF v.n = "pos" THEN
        IF DecGreater(v.digits, I64_MAX) THEN None
        ELSE Some([neg |-> FALSE, digits |-> v.digits])
    ELSE IF v.n = "neg" THEN Some([neg |-> TRUE, digits |-> v.digits])
    ELSE None

\* uN::to_le_bytes of (n as uN), width bytes wide: the low `width` bytes
to_le_bytes(n, width) ==
    LET le == ToBaseLE(n, 10, 256)
    IN  [i \in 1..width |-> IF i <= Len(le) THEN le[i] ELSE 0]

\* uN::from_le_bytes
from_le_bytes(bytes) == Canon(ToBase(Reverse(bytes), 256, 10))

\* the low byte of the magnitude, the sign dropped
i64_as_u8_magnitude(x) == to_le_bytes(x.digits, 1)[1]

\* (x as u8) of an i64: the low byte of the two's complement
i64_as_u8(x) ==
    LET low == to_le_bytes(x.digits, 1)[1]
    IN  IF x.neg THEN (256 - low) % 256 ELSE low

\* n - 1 on a positive numeral
RECURSIVE PredLE(_)
PredLE(le) ==
    IF Head(le) > 0 THEN <<Head(le) - 1>> \o Tail(le) ELSE <<9>> \o PredLE(Tail(le))

DecPred(n) == Canon(Reverse(PredLE(Reverse(n))))

\* slice::get(index) for a usize index: the lists of the model are far
\* shorter than 1000 entries, so a numeral of more than 3 digits is past the end
SliceGet(list, index) ==
    IF Len(index) > 3 THEN None
    ELSE LET i == DigitsToInt(index, 0)
         IN  IF i < Len(list) THEN Some(list[i + 1]) ELSE None

----------------------------------------------------------------------------
(* Pubkey (solana_sdk): 32 bytes, written in base58 *)

PUBKEY_BYTES == 32

\* bs58 decoding: each leading '1' is a zero byte, the rest a base-58 numeral
Base58Decode(s) ==
    LET z == LeadingCount(s, "1")
        rest == [i \in 1..(Len(s) - z) |-> CharIndex(Base58Chars, s[z + i])]
    IN  Zeros(z) \o ToBase(rest, 58, 256)

\* bs58 encoding
Base58Encode(bytes) ==
    LET z == LeadingCount(bytes, 0)
        digs == ToBase(SubSeq(bytes, z + 1, Len(bytes)), 256, 58)
    IN  [i \in 1..z |-> "1"] \o [i \in 1..Len(digs) |-> Base58Chars[digs[i] + 1]]

\* Pubkey::from_str
Pubkey_from_str(s) ==
    IF Len(s) > 44 THEN Err("WrongSize")   \* MAX_BASE58_LEN
    ELSE IF ~AllIn(s, Base58Chars) THEN Err("Invalid")
    ELSE LET bytes == Base58Decode(s)
         IN  IF Len(bytes) # PUBKEY_BYTES THEN Err("WrongSize") ELSE Ok(bytes)

\* Pubkey::to_string
Pubkey_to_string(pk) == Base58Encode(pk)

COMPUTE_BUDGET_PROGRAM_ID ==
    Pubkey_from_str(<<"C", "o", "m", "p", "u", "t", "e", "B", "u", "d", "g", "e", "t", "1", "1",
        "1", "1", "1", "1", "1", "1", "1", "1", "1", "1", "1", "1", "1", "1", "1", "1", "1", "1",
        "1", "1", "1", "1", "1", "1", "1", "1", "1", "1">>).v

SYSTEM_PROGRAM_ID ==
    Pubkey_from_str(<<"1", "1", "1", "1", "1", "1", "1", "1", "1", "1", "1", "1", "1", "1", "1",
        "1", "1", "1", "1", "1", "1", "1", "1", "1", "1", "1", "1", "1", "1", "1", "1", "1">>).v

TOKEN_PROGRAM_ID ==
    Pubkey_from_str(<<"T", "o", "k", "e", "n", "k", "e", "g", "Q", "f", "e", "Z", "y", "i", "N",
        "w", "A", "J", "b", "N", "b", "G", "K", "P", "F", "X", "C", "W", "u", "B", "v", "f", "9",
        "S", "s", "6", "2", "3", "V", "Q", "5", "D", "A">>).v

ASSOCIATED_TOKEN_PROGRAM_ID ==
    Pubkey_from_str(<<"A", "T", "o", "k", "e", "n", "G", "P", "v", "b", "d", "G", "V", "x", "r",
        "1", "b", "2", "h", "v", "Z", "b", "s", "i", "q", "W", "5", "x", "W", "H", "2", "5", "e",
        "f", "T", "N", "s", "L", "J", "A", "8", "k", "n", "L">>).v

\* Pubkey::find_program_address(seeds, program_id).0.  The library hashes the
\* seeds, the bump, the program id and a marker with SHA-256 and keeps the
\* first result off the curve; the model keeps what the callers rely on: the
\* address is a function of the seeds IN THEIR ORDER and of the program id.
\* Byte i is a position-weighted sum of the i-th bytes of the inputs.
find_program_address(seeds, program_id) ==
    [i \in 1..PUBKEY_BYTES |->
        (SumSeq([j \in 1..Len(seeds) |-> (2 * j + 1) * seeds[j][i]])
            + 11 * program_id[i] + 255 + i) % 256]

----------------------------------------------------------------------------
(* String literals of the source *)

S_type == <<"t", "y", "p", "e">>

S_data == <<"d", "a", "t", "a">>

S_size == <<"s", "i", "z", "e">>

S_Size == <<"S", "i", "z", "e">>

S_length == <<"l", "e", "n", "g", "t", "h">>

S_name == <<"n", "a", "m", "e">>

S_owner == <<"o", "w", "n", "e", "r">>

S_mint == <<"m", "i", "n", "t">>

S_u8 == <<"u", "8">>

S_u16 == <<"u", "1", "6">>

S_u32 == <<"u", "3", "2">>

S_u64 == <<"u", "6", "4">>

S_boolean == <<"b", "o", "o", "l", "e", "a", "n">>

S_pubkey == <<"p", "u", "b", "k", "e", "y">>

S_bytes == <<"b", "y", "t", "e", "s">>

S_string == <<"s", "t", "r", "i", "n", "g">>

S_object == <<"o", "b", "j", "e", "c", "t">>

S_ata == <<"a", "t", "a">>

S_compute_budget_program == <<"c", "o", "m", "p", "u", "t", "e", "_", "b", "u", "d", "g", "e", "t", "_", "p", "r", "o", "g", "r", "a", "m">>

S_system_program == <<"s", "y", "s", "t", "e", "m", "_", "p", "r", "o", "g", "r", "a", "m">>

S_token_program == <<"t", "o", "k", "e", "n", "_", "p", "r", "o", "g", "r", "a", "m">>

S_associated_token_program == <<"a", "s", "s", "o", "c", "i", "a", "t", "e", "d", "_", "t", "o", "k", "e", "n", "_", "p", "r", "o", "g", "r", "a", "m">>

S_true == <<"t", "r", "u", "e">>

S_info == <<"i", "n", "f", "o">>

S_lamports == <<"l", "a", "m", "p", "o", "r", "t", "s">>

S_source == <<"s", "o", "u", "r", "c", "e">>

S_destination == <<"d", "e", "s", "t", "i", "n", "a", "t", "i", "o", "n">>

S_transfer == <<"t", "r", "a", "n", "s", "f", "e", "r">>

S_wallet == <<"w", "a", "l", "l", "e", "t">>

S_account == <<"a", "c", "c", "o", "u", "n", "t">>

S_systemProgram == <<"s", "y", "s", "t", "e", "m", "P", "r", "o", "g", "r", "a", "m">>

S_tokenProgram == <<"t", "o", "k", "e", "n", "P", "r", "o", "g", "r", "a", "m">>

S_payload == <<"p", "a", "y", "l", "o", "a", "d">>

S_set_cu_limit == <<"s", "e", "t", "_", "c", "u", "_", "l", "i", "m", "i", "t">>

S_create_ata == <<"c", "r", "e", "a", "t", "e", "_", "a", "t", "a">>

S_close_ata == <<"c", "l", "o", "s", "e", "_", "a", "t", "a">>

S_limit == <<"l", "i", "m", "i", "t">>

S_from == <<"f", "r", "o", "m">>

S_to == <<"t", "o">>

S_amount == <<"a", "m", "o", "u", "n", "t">>

S_lookup_tables == <<"l", "o", "o", "k", "u", "p", "_", "t", "a", "b", "l", "e", "s">>

S_is_signer == <<"i", "s", "_", "s", "i", "g", "n", "e", "r">>

S_is_writable == <<"i", "s", "_", "w", "r", "i", "t", "a", "b", "l", "e">>

S_program_id == <<"p", "r", "o", "g", "r", "a", "m", "_", "i", "d">>

S_accounts == <<"a", "c", "c", "o", "u", "n", "t", "s">>

S_instructions == <<"i", "n", "s", "t", "r", "u", "c", "t", "i", "o", "n", "s">>

S_signers == <<"s", "i", "g", "n", "e", "r", "s">>

\* the characters U+0020..U+007E, in code order (a character the module's
\* syntax cannot quote is named by its code point)
AsciiPrintable ==
    <<" ", "!", "\"", "#", "$", "%", "&", "'", "(", ")", "*", "+", ",", "-", ".", "/",
      "0", "1", "2", "3", "4", "5", "6", "7", "8", "9", ":", ";", "<", "=", ">", "?",
      "@", "A", "B", "C", "D", "E", "F", "G", "H", "I", "J", "K", "L", "M", "N", "O",
      "P", "Q", "R", "S", "T", "U", "V", "W", "X", "Y", "Z", "[", "\\", "]", "^", "_",
      "U+0060", "a", "b", "c", "d", "e", "f", "g", "h", "i", "j", "k", "l", "m", "n", "o",
      "p", "q", "r", "s", "t", "u", "v", "w", "x", "y", "z", "{", "|", "}", "~">>

\* U+FFFD REPLACEMENT CHARACTER, one character of a string
REPLACEMENT_CHARACTER == "U+FFFD"

----------------------------------------------------------------------------
(* src/src/tx_format/params.rs *)

\* param_index without the step from the 1-based position to the 0-based
\* index
param_index_one_based(s) ==
    IF s # <<>> /\ Head(s) = "$" THEN
        LET index == parse_unsigned(Tail(s))
        IN  IF index.some /\ index.v # <<0>> THEN Some(index.v) ELSE None
    ELSE None

\* the result is the 0-based index, a usize
param_index(s) ==
    IF s # <<>> /\ Head(s) = "$" THEN
        LET index == parse_unsigned(Tail(s))
        IN  IF index.some /\ index.v # <<0>> THEN Some(DecPred(index.v)) ELSE None
    ELSE None

resolve_value(v, ps) ==
    IF IsString(v) THEN
        LET index == param_index(v.s)
        IN  IF index.some THEN
                LET param == SliceGet(ps, index.v)
                IN  IF param.some THEN Str(param.v) ELSE v
            ELSE v
    ELSE v

----------------------------------------------------------------------------
(* src/src/tx_format/pubkey.rs *)

\* A call that never returns: the recursion of parse_pubkey has no bound, and
\* a chain of parameters that leads back to itself is followed until the
\* stack is exhausted and the process aborted.
NoReturn == [ok |-> FALSE, err |-> "no return: unbounded recursion"]

\* the seeds with the mint ahead of the owner
ata_seeds_mint_first(owner, mint) == <<mint, TOKEN_PROGRAM_ID, owner>>

\* the seeds of the associated-token address
ata_seeds(owner, mint) == <<owner, TOKEN_PROGRAM_ID, mint>>

\* the tags with the addresses of the system and the token program exchanged
program_tag_exchanged(kind) ==
    CASE kind = S_compute_budget_program -> Ok(COMPUTE_BUDGET_PROGRAM_ID)
      [] kind = S_system_program -> Ok(TOKEN_PROGRAM_ID)
      [] kind = S_token_program -> Ok(SYSTEM_PROGRAM_ID)
      [] kind = S_associated_token_program -> Ok(ASSOCIATED_TOKEN_PROGRAM_ID)
      [] OTHER -> Err("Unsupported pubkey type")

\* the type tags of the well-known programs
program_tag(kind) ==
    CASE kind = S_compute_budget_program -> Ok(COMPUTE_BUDGET_PROGRAM_ID)
      [] kind = S_system_program -> Ok(SYSTEM_PROGRAM_ID)
      [] kind = S_token_program -> Ok(TOKEN_PROGRAM_ID)
      [] kind = S_associated_token_program -> Ok(ASSOCIATED_TOKEN_PROGRAM_ID)
      [] OTHER -> Err("Unsupported pubkey type")

\* the string arm once no parameter is left to substitute
pubkey_of_string(s) ==
    LET pk == Pubkey_from_str(s)
    IN  IF pk.ok THEN pk ELSE Err("Invalid pubkey")

\* chain: the strings already being resolved by the enclosing calls
RECURSIVE parse_pubkey_rec(_, _, _)
parse_pubkey_rec(v, ps, chain) ==
    IF IsObject(v) THEN
        LET map == v.o
            kind == Get(map, S_type)
        IN  IF ~kind.some \/ ~IsString(kind.v) THEN Err("Unsupported pubkey object")
            ELSE IF kind.v.s = S_ata THEN
                IF ~Get(map, S_owner).some THEN Err("Missing owner for ata")
                ELSE IF ~Get(map, S_mint).some THEN Err("Missing mint for ata")
                ELSE LET owner == parse_pubkey_rec(map[S_owner], ps, chain)
                     IN  IF ~owner.ok THEN owner
                         ELSE LET mint == parse_pubkey_rec(map[S_mint], ps, chain)
                              IN  IF ~mint.ok THEN mint
                                  ELSE Ok(find_program_address(
                                              ata_seeds(owner.v, mint.v),
                                              ASSOCIATED_TOKEN_PROGRAM_ID))
            ELSE program_tag(kind.v.s)
    ELSE IF IsString(v) THEN
        LET resolved == resolve_value(v, ps)
        IN  IF resolved # v THEN
                IF resolved.s \in chain \cup {v.s} THEN NoReturn
                ELSE parse_pubkey_rec(resolved, ps, chain \cup {v.s})
            ELSE pubkey_of_string(resolved.s)
    ELSE Err("Unsupported pubkey value")

parse_pubkey(v, ps) == parse_pubkey_rec(v, ps, {})

----------------------------------------------------------------------------
(* Text encodings of bytes: hex, base64 (STANDARD engine), UTF-8 *)

RECURSIVE Pow(_, _)
Pow(b, e) == IF e = 0 THEN 1 ELSE b * Pow(b, e - 1)

HexValue(c) ==
    IF c \in Range(HexChars) THEN CharIndex(HexChars, c) ELSE CharIndex(HexUpperChars, c)

\* hex::decode: an even number of hex digits of either case
hex_decode(s) ==
    IF Len(s) % 2 # 0 \/ ~AllIn(s, HexChars \o HexUpperChars) THEN None
    ELSE Some([i \in 1..(Len(s) \div 2) |->
                 16 * HexValue(s[2 * i - 1]) + HexValue(s[2 * i])])

\* hex::encode: lower case
hex_encode(bytes) ==
    [i \in 1..(2 * Len(bytes)) |->
        LET b == bytes[(i + 1) \div 2]
        IN  HexChars[(IF i % 2 = 1 THEN b \div 16 ELSE b % 16) + 1]]

\* the 24-bit value of the g-th (from 0) group of `per` digits of `width` bits
\* each, digits past the end counting as zero
GroupValue(digs, g, per, width) ==
    SumSeq([j \in 1..per |->
        IF per * g + j <= Len(digs)
        THEN digs[per * g + j] * Pow(Pow(2, width), per - j)
        ELSE 0])

\* STANDARD.decode: padded to a multiple of four characters, the padding
\* canonical, and no bits set past the last whole byte
base64_decode(s) ==
    LET n   == Len(s)
        pad == IF n > 0 /\ s[n] = "=" THEN (IF n > 1 /\ s[n - 1] = "=" THEN 2 ELSE 1) ELSE 0
        body == SubSeq(s, 1, n - pad)
        digs == [i \in 1..Len(body) |-> CharIndex(Base64Chars, body[i])]
        last == digs[Len(digs)]
    IN  IF n % 4 # 0 \/ ~AllIn(body, Base64Chars) THEN None
        ELSE IF pad = 1 /\ last % 4 # 0 THEN None
        ELSE IF pad = 2 /\ last % 16 # 0 THEN None
        ELSE Some([j \in 1..((Len(body) * 6) \div 8) |->
                     (GroupValue(digs, (j - 1) \div 3, 4, 6)
                         \div Pow(256, 2 - ((j - 1) % 3))) % 256])

\* STANDARD.encode
base64_encode(bytes) ==
    LET n == Len(bytes)
    IN  [p \in 1..(4 * ((n + 2) \div 3)) |->
            LET g == (p - 1) \div 4
                i == (p - 1) % 4
            IN  IF i > n - 3 * g THEN "="
                ELSE Base64Chars[
                        ((GroupValue(bytes, g, 3, 8) \div Pow(64, 3 - i)) % 64) + 1]]

\* String::from_utf8_lossy on buffers of single-byte sequences: a byte of
\* U+0020..U+007E is its character, another byte below 0x80 the control
\* character of that code, and a byte from 0x80 that begins no well-formed
\* sequence is replaced by U+FFFD.  (A lead byte 0xC2..0xF4 followed by its
\* continuation bytes would decode to one character; the buffers of the model
\* hold no such pair.)
utf8_char(b) ==
    IF b >= 32 /\ b <= 126 THEN AsciiPrintable[b - 31]
    ELSE IF b < 128 THEN "U+00" \o HexUpperChars[(b \div 16) + 1] \o HexUpperChars[(b % 16) + 1]
    ELSE REPLACEMENT_CHARACTER

from_utf8_lossy(bytes) == [i \in 1..Len(bytes) |-> utf8_char(bytes[i])]

----------------------------------------------------------------------------
(* serde_json::from_str::<Value>, on the JSON grammar without the \b \f     *)
(* \uXXXX escapes.  A parser step yields [ok, v, pos]: the value and the     *)
(* index after it.                                                           *)

ParseFail == [ok |-> FALSE]

ParseOk(v, pos) == [ok |-> TRUE, v |-> v, pos |-> pos]

Whitespace == {" ", "\t", "\n", "\r"}

RECURSIVE SkipWs(_, _)
SkipWs(t, i) == IF i <= Len(t) /\ t[i] \in Whitespace THEN SkipWs(t, i + 1) ELSE i

At(t, i) == IF i >= 1 /\ i <= Len(t) THEN t[i] ELSE "<eof>"

\* the literal word lit of value v at index i
ParseWord(t, i, lit, v) ==
    IF i + Len(lit) - 1 <= Len(t) /\ SubSeq(t, i, i + Len(lit) - 1) = lit
    THEN ParseOk(v, i + Len(lit)) ELSE ParseFail

\* the index after the run of decimal digits that starts at i
RECURSIVE SkipDigits(_, _)
SkipDigits(t, i) == IF At(t, i) \in Range(DecimalChars) THEN SkipDigits(t, i + 1) ELSE i

\* the index after a run of one or more digits that starts at i; 0 when
\* there is none
DigitRunEnd(t, i) ==
    LET NonEmpty(end) == IF end = i THEN 0 ELSE end
    IN  NonEmpty(SkipDigits(t, i))

\* Number::from of a parsed numeral: an integer that fits neither u64 nor
\* i64, "-0", and a numeral with a fraction or an exponent are floats
NumberValue(neg, digits, isFloat) ==
    IF isFloat THEN FloatNum(digits)
    ELSE IF neg THEN
        IF digits = <<0>> \/ DecGreater(digits, I64_MIN_MAGNITUDE) THEN FloatNum(digits)
        ELSE NegNum(digits)
    ELSE IF DecGreater(digits, U64_MAX) THEN FloatNum(digits)
    ELSE Num(digits)

\* a number: -? int frac? exp?
ParseNumber(t, i) ==
    LET Finish(neg, i0, i1, i4) ==
            IF i1 = 0 \/ i4 = 0 THEN ParseFail
            ELSE ParseOk(NumberValue(neg, Canon(StrToDigits(SubSeq(t, i0, i1 - 1))), i4 # i1),
                         i4)
        ExpEnd(i2) ==
            IF i2 = 0 THEN 0
            ELSE IF At(t, i2) \in {"e", "E"}
            THEN DigitRunEnd(t, IF At(t, i2 + 1) \in {"+", "-"} THEN i2 + 2 ELSE i2 + 1)
            ELSE i2
        FracEnd(i1) ==
            IF i1 = 0 THEN 0
            ELSE IF At(t, i1) = "." THEN DigitRunEnd(t, i1 + 1) ELSE i1
        WithInt(neg, i0, i1) == Finish(neg, i0, i1, ExpEnd(FracEnd(i1)))
        WithSign(neg, i0) ==
            WithInt(neg, i0, IF At(t, i0) = "0" THEN i0 + 1 ELSE DigitRunEnd(t, i0))
    IN  WithSign(At(t, i) = "-", IF At(t, i) = "-" THEN i + 1 ELSE i)

\* the characters of a string from index i (after the opening quote) up to
\* the closing quote
RECURSIVE ParseChars(_, _, _)
ParseChars(t, i, acc) ==
    IF i > Len(t) THEN ParseFail
    ELSE IF t[i] = "\"" THEN ParseOk(acc, i + 1)
    ELSE IF t[i] = "\\" THEN
        LET Escape(e) ==
                IF e \in {"\"", "\\", "/"} THEN ParseChars(t, i + 2, Append(acc, e))
                ELSE IF e = "n" THEN ParseChars(t, i + 2, Append(acc, "\n"))
                ELSE IF e = "t" THEN ParseChars(t, i + 2, Append(acc, "\t"))
                ELSE IF e = "r" THEN ParseChars(t, i + 2, Append(acc, "\r"))
                ELSE ParseFail
        IN  Escape(At(t, i + 1))
    ELSE IF t[i] \in {"\n", "\t", "\r"} THEN ParseFail
    ELSE ParseChars(t, i + 1, Append(acc, t[i]))

ParseString(t, i) ==
    LET Wrap(s) == IF s.ok THEN ParseOk(Str(s.v), s.pos) ELSE ParseFail
    IN  Wrap(ParseChars(t, i + 1, <<>>))

RECURSIVE ParseValue(_, _)
RECURSIVE ParseElements(_, _, _)
RECURSIVE ParseMembers(_, _, _)

ParseValue(t, i) ==
    LET Open(j, close, empty) ==
            IF At(t, j) = close THEN ParseOk(empty, j + 1)
            ELSE IF close = "]" THEN ParseElements(t, j, <<>>)
            ELSE ParseMembers(t, j, <<>>)
        Dispatch(i0, c) ==
            CASE c = "n" -> ParseWord(t, i0, <<"n", "u", "l", "l">>, Null)
              [] c = "t" -> ParseWord(t, i0, <<"t", "r", "u", "e">>, Bool(TRUE))
              [] c = "f" -> ParseWord(t, i0, <<"f", "a", "l", "s", "e">>, Bool(FALSE))
              [] c = "\"" -> ParseString(t, i0)
              [] c = "[" -> Open(SkipWs(t, i0 + 1), "]", Arr(<<>>))
              [] c = "{" -> Open(SkipWs(t, i0 + 1), "}", Obj(<<>>))
              [] c = "-" \/ c \in Range(DecimalChars) -> ParseNumber(t, i0)
              [] OTHER -> ParseFail
        AtStart(i0) == Dispatch(i0, At(t, i0))
    IN  AtStart(SkipWs(t, i))

ParseElements(t, i, acc) ==
    LET Sep(items, j) ==
            IF At(t, j) = "," THEN ParseElements(t, j + 1, items)
            ELSE IF At(t, j) = "]" THEN ParseOk(Arr(items), j + 1)
            ELSE ParseFail
        AfterValue(v) ==
            IF ~v.ok THEN ParseFail ELSE Sep(Append(acc, v.v), SkipWs(t, v.pos))
    IN  AfterValue(ParseValue(t, i))

\* a key given twice keeps its last value (Map::insert)
ParseMembers(t, i, acc) ==
    LET Sep(map, j) ==
            IF At(t, j) = "," THEN ParseMembers(t, j + 1, map)
            ELSE IF At(t, j) = "}" THEN ParseOk(Obj(map), j + 1)
            ELSE ParseFail
        AfterValue(key, v) ==
            IF ~v.ok THEN ParseFail ELSE Sep(Insert(acc, key, v.v), SkipWs(t, v.pos))
        AfterColon(key, i1) ==
            IF At(t, i1) = ":" THEN AfterValue(key, ParseValue(t, i1 + 1)) ELSE ParseFail
        AfterKey(key) ==
            IF ~key.ok THEN ParseFail ELSE AfterColon(key.v, SkipWs(t, key.pos))
        AtKey(i0) ==
            IF At(t, i0) = "\"" THEN AfterKey(ParseChars(t, i0 + 1, <<>>)) ELSE ParseFail
    IN  AtKey(SkipWs(t, i))

\* the whole text is one value
serde_json_from_str(t) ==
    LET Whole(v) == IF v.ok /\ SkipWs(t, v.pos) > Len(t) THEN Ok(v.v) ELSE Err("invalid JSON")
    IN  Whole(ParseValue(t, 1))

\* str::trim_start then starts_with(c)
TrimStartStartsWith(t, c) == At(t, SkipWs(t, 1)) = c

----------------------------------------------------------------------------
(* src/src/tx_format/data_format.rs *)

MAX_SAFE_INTEGER == <<9, 0, 0, 7, 1, 9, 9, 2, 5, 4, 7, 4, 0, 9, 9, 1>>

parse_u64(v) ==
    CASE v.k = "num" ->
            IF as_u64(v).some THEN Ok(as_u64(v).v) ELSE Err("Invalid numeric value")
      [] v.k = "str" ->
            IF parse_unsigned(v.s).some THEN Ok(parse_unsigned(v.s).v)
            ELSE Err("Invalid numeric string")
      [] v.k = "bool" -> Ok(IF v.b THEN <<1>> ELSE <<0>>)
      [] OTHER -> Err("Unsupported numeric value")

parse_bool(v) ==
    CASE v.k = "bool" -> Ok(v.b)
      [] v.k = "str" -> Ok(v.s = S_true)
      [] OTHER -> Err("Unsupported boolean value")

\* vec![0u8; length].  A count above isize::MAX (i64::MAX on the 64-bit
\* targets of the program) makes the allocation panic with "capacity
\* overflow": the call does not return.  A smaller count of more than three
\* digits is past every buffer of the model; the allocation of such a vector
\* is not modelled.
zero_bytes(length) ==
    IF DecGreater(length, I64_MAX) THEN Panic("capacity overflow")
    ELSE IF Len(length) > 3 THEN Err("allocation not modelled")
    ELSE Ok(Zeros(DigitsToInt(length, 0)))

\* the String arm of pack_data: `0x` then hex, or else base64
pack_string(s) ==
    IF Len(s) >= 2 /\ SubSeq(s, 1, 2) = <<"0", "x">> THEN
        LET bytes == hex_decode(SubSeq(s, 3, Len(s)))
        IN  IF bytes.some THEN Ok(bytes.v) ELSE Err("Invalid hex string")
    ELSE
        LET decoded == base64_decode(s)
        IN  IF decoded.some THEN Ok(decoded.v) ELSE Err("Invalid base64 string")

\* one entry of the Array arm of pack_data: the entry as an i64
array_entry(item) ==
    CASE item.k = "num" ->
            IF as_i64(item).some THEN Ok(as_i64(item).v) ELSE Err("Invalid array entry")
      [] item.k = "str" ->
            IF parse_i64(item.s).some THEN Ok(parse_i64(item.s).v)
            ELSE Err("Invalid array entry")
      [] item.k = "bool" -> Ok([neg |-> FALSE, digits |-> IF item.b THEN <<1>> ELSE <<0>>])
      [] OTHER -> Err("Unsupported array entry")

\* the Array arm: one byte per entry, the first error ends the loop
RECURSIVE pack_array(_, _, _)
pack_array(items, ps, out) ==
    IF items = <<>> THEN Ok(out)
    ELSE LET entry == array_entry(resolve_value(Head(items), ps))
         IN  IF ~entry.ok THEN entry
             ELSE pack_array(Tail(items), ps, Append(out, i64_as_u8(entry.v)))

\* the widths with those of u16 and u32 exchanged
pack_width_exchanged(kind) ==
    CASE kind = S_u8 -> 1
      [] kind = S_u16 -> 4
      [] kind = S_u32 -> 2
      [] kind = S_u64 -> 8

\* the byte width of the integer tags of pack_data
pack_width(kind) ==
    CASE kind = S_u8 -> 1
      [] kind = S_u16 -> 2
      [] kind = S_u32 -> 4
      [] kind = S_u64 -> 8

\* the integer arms with a range test: a value past the width is an error
pack_integer_checked(kind, data, ps) ==
    LET Fit(n) ==
            IF ~n.ok THEN n
            ELSE IF from_le_bytes(to_le_bytes(n.v, pack_width(kind))) # n.v
            THEN Err("Value out of range")
            ELSE Ok(to_le_bytes(n.v, pack_width(kind)))
    IN  Fit(parse_u64(resolve_value(data, ps)))

\* the integer arms of pack_data
pack_integer(kind, data, ps) ==
    LET n == parse_u64(resolve_value(data, ps))
    IN  IF n.ok THEN Ok(to_le_bytes(n.v, pack_width(kind))) ELSE n

\* the text is parsed only when its first character opens an array or an
\* object: leading whitespace is not skipped
object_data_untrimmed(data, ps) ==
    LET Parsed(resolved, parsed) == IF parsed.ok THEN parsed.v ELSE resolved
        Text(resolved) ==
            IF IsString(resolved) /\ At(resolved.s, 1) \in {"[", "{"}
            THEN Parsed(resolved, serde_json_from_str(resolved.s))
            ELSE resolved
    IN  Text(resolve_value(data, ps))

\* the `data` of an "object": a parameter naming JSON text is parsed
object_data(data, ps) ==
    LET resolved == resolve_value(data, ps)
    IN  IF IsString(resolved)
           /\ (TrimStartStartsWith(resolved.s, "[") \/ TrimStartStartsWith(resolved.s, "{"))
        THEN LET parsed == serde_json_from_str(resolved.s)
             IN  IF parsed.ok THEN parsed.v ELSE resolved
        ELSE resolved

RECURSIVE pack_data(_, _)
RECURSIVE pack_list(_, _, _)

pack_data(v, ps) ==
    LET resolved == resolve_value(v, ps)
    IN  CASE resolved.k = "bool" -> Ok(<<IF parse_bool(resolved).v THEN 1 ELSE 0>>)
          [] resolved.k = "num" ->
                LET length == parse_u64(resolved)
                IN  IF length.ok THEN zero_bytes(length.v) ELSE length
          [] resolved.k = "str" -> pack_string(resolve_value(resolved, ps).s)
          [] resolved.k = "arr" -> pack_array(resolved.a, ps, <<>>)
          [] resolved.k = "obj" ->
                LET map  == resolved.o
                    kind == Get(map, S_type)
                    data == Get(map, S_data)
                IN  IF ~kind.some \/ ~IsString(kind.v) THEN Err("Missing type in data object")
                    ELSE IF kind.v.s \notin {S_u8, S_u16, S_u32, S_u64, S_pubkey, S_string,
                                             S_bytes, S_object}
                    THEN Err("Unsupported data object type")
                    ELSE IF ~data.some THEN Err("Missing data")
                    ELSE IF kind.v.s \in {S_u8, S_u16, S_u32, S_u64}
                    THEN pack_integer(kind.v.s, data.v, ps)
                    ELSE IF kind.v.s = S_pubkey THEN parse_pubkey(data.v, ps)
                    ELSE IF kind.v.s \in {S_string, S_bytes} THEN pack_data(data.v, ps)
                    ELSE LET parsed == object_data(data.v, ps)
                         IN  IF ~IsArray(parsed) THEN Err("Object data must be array")
                             ELSE pack_list(parsed.a, ps, <<>>)
          [] resolved.k = "null" -> Ok(<<>>)

\* the loop ends at the first error and returns the bytes packed so far
pack_list_partial(list, ps, buf) ==
    LET Next1(bytes) ==
            IF ~bytes.ok THEN Ok(buf) ELSE pack_list(Tail(list), ps, buf \o bytes.v)
    IN  IF list = <<>> THEN Ok(buf) ELSE Next1(pack_data(Head(list), ps))

\* the loop of the "object" arm: the first error ends it
pack_list(list, ps, buf) ==
    IF list = <<>> THEN Ok(buf)
    ELSE LET bytes == pack_data(Head(list), ps)
         IN  IF ~bytes.ok THEN bytes ELSE pack_list(Tail(list), ps, buf \o bytes.v)

\* a usize read from a schema or an entry, as an index into a buffer; None
\* when it is past every buffer of the model (more than three digits)
small_usize(n) == IF Len(n) > 3 THEN None ELSE Some(DigitsToInt(n, 0))

\* buffer.get(offset..offset + width)
slice_get(buf, off, width) ==
    IF off + width <= Len(buf) THEN Some(SubSeq(buf, off + 1, off + width)) ELSE None

\* the byte width of the fixed-width tags of unpack_data
unpack_width(kind) ==
    CASE kind = S_u8 -> 1
      [] kind = S_u16 -> 2
      [] kind = S_u32 -> 4
      [] kind = S_u64 -> 8
      [] kind = S_boolean -> 1
      [] kind = S_pubkey -> 32

\* the choice with the comparison `>=` in place of `>`
u64_value_inclusive(n) ==
    IF n = MAX_SAFE_INTEGER \/ DecGreater(n, MAX_SAFE_INTEGER) THEN Str(DigitsToStr(n))
    ELSE Num(n)

\* the "u64" arm's choice between a number and its decimal string
u64_value(n) == IF DecGreater(n, MAX_SAFE_INTEGER) THEN Str(DigitsToStr(n)) ELSE Num(n)

\* the key of a "bytes" schema that states its size
bytes_size_key == S_Size

\* the key of a "string" schema that states its length
string_length_key == S_length

\* the `data` the fixed-width arms of unpack_data decode from their bytes
unpack_scalar(kind, bytes) ==
    CASE kind \in {S_u8, S_u16, S_u32} -> Num(from_le_bytes(bytes))
      [] kind = S_u64 -> u64_value(from_le_bytes(bytes))
      [] kind = S_boolean -> Bool(bytes[1] # 0)
      [] kind = S_pubkey -> Str(Pubkey_to_string(bytes))

RECURSIVE get_byte_length(_)
RECURSIVE byte_length_sum(_, _)

get_byte_length(entry) ==
    IF ~IsObject(entry) THEN Err("Invalid entry")
    ELSE LET map  == entry.o
             kind == Get(map, S_type)
         IN  IF ~kind.some \/ ~IsString(kind.v) THEN Err("Missing type")
             ELSE CASE kind.v.s = S_u8 -> Ok(1)
                    [] kind.v.s = S_u16 -> Ok(2)
                    [] kind.v.s = S_u32 -> Ok(4)
                    [] kind.v.s = S_u64 -> Ok(8)
                    [] kind.v.s = S_boolean -> Ok(1)
                    [] kind.v.s = S_pubkey -> Ok(32)
                    [] kind.v.s = S_bytes ->
                          IF Get(map, S_size).some /\ as_u64(map[S_size]).some
                          THEN Ok(DigitsToInt(as_u64(map[S_size]).v, 0))
                          ELSE Err("Missing size")
                    [] kind.v.s = S_string ->
                          IF Get(map, S_length).some /\ as_u64(map[S_length]).some
                          THEN Ok(DigitsToInt(as_u64(map[S_length]).v, 0))
                          ELSE Err("Missing length")
                    [] kind.v.s = S_object ->
                          IF Get(map, S_data).some /\ IsArray(map[S_data])
                          THEN byte_length_sum(map[S_data].a, 0)
                          ELSE Err("Missing object data")
                    [] OTHER -> Err("Unknown type for byte length")

\* the loop of the "object" arm of get_byte_length
byte_length_sum(list, total) ==
    IF list = <<>> THEN Ok(total)
    ELSE LET len == get_byte_length(Head(list))
         IN  IF ~len.ok THEN len ELSE byte_length_sum(Tail(list), total + len.v)

RECURSIVE unpack_data(_, _, _)
RECURSIVE unpack_list(_, _, _, _)

unpack_data(buf, sch, off) ==
    IF IsArray(sch) THEN
        LET out == unpack_list(buf, sch.a, off, <<>>)
        IN  IF out.ok THEN Ok(Arr(out.v)) ELSE out
    ELSE IF ~IsObject(sch) THEN Err("Schema must be object or array")
    ELSE
        LET schema_map == sch.o
            kind == Get(schema_map, S_type)
        IN  IF ~kind.some \/ ~IsString(kind.v) THEN Err("Missing type in schema")
            ELSE IF kind.v.s \in {S_u8, S_u16, S_u32, S_u64, S_boolean, S_pubkey} THEN
                LET bytes == slice_get(buf, off, unpack_width(kind.v.s))
                IN  IF ~bytes.some THEN Err("Out of bounds")
                    ELSE Ok(Obj(Insert(schema_map, S_data, unpack_scalar(kind.v.s, bytes.v))))
            ELSE IF kind.v.s = S_bytes THEN
                LET size == IF Get(schema_map, bytes_size_key).some
                            THEN as_u64(schema_map[bytes_size_key]) ELSE None
                IN  IF ~size.some THEN Err("Missing Size in bytes schema")
                    ELSE IF ~small_usize(size.v).some THEN Err("Out of bounds")
                    ELSE LET slice == slice_get(buf, off, small_usize(size.v).v)
                         IN  IF ~slice.some THEN Err("Out of bounds")
                             ELSE Ok(Obj(Insert(Insert(schema_map, S_size, Num(size.v)),
                                                S_data, Str(base64_encode(slice.v)))))
            ELSE IF kind.v.s = S_string THEN
                LET len == IF Get(schema_map, string_length_key).some
                           THEN as_u64(schema_map[string_length_key]) ELSE None
                IN  IF ~len.some THEN Err("Missing Length in string schema")
                    ELSE IF ~small_usize(len.v).some THEN Err("Out of bounds")
                    ELSE LET slice == slice_get(buf, off, small_usize(len.v).v)
                         IN  IF ~slice.some THEN Err("Out of bounds")
                             ELSE Ok(Obj(Insert(Insert(schema_map, S_length, Num(len.v)),
                                                S_data, Str(from_utf8_lossy(slice.v)))))
            ELSE IF kind.v.s = S_object THEN
                IF ~(Get(schema_map, S_data).some /\ IsArray(schema_map[S_data]))
                THEN Err("Missing object data")
                ELSE LET out == unpack_list(buf, schema_map[S_data].a, off, <<>>)
                         head == S_type :> Str(S_object)
                         named == IF Get(schema_map, S_name).some
                                  THEN Insert(head, S_name, schema_map[S_name]) ELSE head
                     IN  IF ~out.ok THEN out
                         ELSE Ok(Obj(Insert(named, S_data, Arr(out.v))))
            ELSE Err("Unknown type")

\* the loop with a cursor that stays at the offset
unpack_list_stalled(buf, entries, cursor, out) ==
    LET Next2(res) ==
            IF ~res.ok THEN res
            ELSE unpack_list(buf, Tail(entries), cursor, Append(out, res.v))
    IN  IF entries = <<>> THEN Ok(out) ELSE Next2(unpack_data(buf, Head(entries), cursor))

\* the loop shared by the array schema and the "object" arm: each entry is
\* decoded at the cursor, which then advances by the entry's byte length
unpack_list(buf, entries, cursor, out) ==
    IF entries = <<>> THEN Ok(out)
    ELSE LET res == unpack_data(buf, Head(entries), cursor)
         IN  IF ~res.ok THEN res
             ELSE LET len == get_byte_length(res.v)
                  IN  IF ~len.ok THEN len
                      ELSE unpack_list(buf, Tail(entries), cursor + len.v, Append(out, res.v))

----------------------------------------------------------------------------
(* src/src/tx_format/parse_tx.rs: the native-program step of the decompiler *)

\* the order of two characters of U+0020..U+007E
CharCode(c) == CharIndex(AsciiPrintable, c) + 32

\* a < b as str (byte order)
RECURSIVE StrLess(_, _)
StrLess(a, b) ==
    IF b = <<>> THEN FALSE
    ELSE IF a = <<>> THEN TRUE
    ELSE IF Head(a) # Head(b) THEN CharCode(Head(a)) < CharCode(Head(b))
    ELSE StrLess(Tail(a), Tail(b))

\* Map::keys: serde_json's Map is a BTreeMap, its keys come in order
RECURSIVE SortedKeys(_)
SortedKeys(keys) ==
    IF keys = {} THEN <<>>
    ELSE LET least == CHOOSE x \in keys : \A y \in keys \ {x} : StrLess(x, y)
         IN  <<least>> \o SortedKeys(keys \ {least})

\* the values under `keys`, in that order, that are strings
RECURSIVE StringValues(_, _)
StringValues(map, keys) ==
    IF keys = <<>> THEN <<>>
    ELSE (IF Get(map, Head(keys)).some /\ IsString(map[Head(keys)])
          THEN <<map[Head(keys)].s>> ELSE <<>>)
         \o StringValues(map, Tail(keys))

\* info.and_then(as_object).map(values().filter_map(as_str)).unwrap_or_default()
info_accounts(info) ==
    IF info.some /\ IsObject(info.v)
    THEN StringValues(info.v.o, SortedKeys(DOMAIN info.v.o)) ELSE <<>>

\* .get(key).and_then(as_str).unwrap_or("")
str_or_empty(map, key) ==
    IF Get(map, key).some /\ IsString(map[key]) THEN map[key].s ELSE <<>>

\* the template with the discriminant 3 in place of 2
transfer_template_three(lamports) ==
    Obj(S_type :> Str(S_object) @@
        S_data :> Arr(<<Obj(S_type :> Str(S_u32) @@ S_data :> Num(<<3>>)),
                        Obj(S_type :> Str(S_u64) @@ S_data :> lamports)>>))

\* the data template of a decompiled system transfer
transfer_template(lamports) ==
    Obj(S_type :> Str(S_object) @@
        S_data :> Arr(<<Obj(S_type :> Str(S_u32) @@ S_data :> Num(<<2>>)),
                        Obj(S_type :> Str(S_u64) @@ S_data :> lamports)>>))

ATA_INFO_KEYS == <<S_wallet, S_account, S_source, S_mint, S_systemProgram, S_tokenProgram>>

\* the result is the pair (accounts, data)
parse_native_program(program_id, parsed) ==
    IF ~IsObject(parsed) THEN [accounts |-> <<>>, data |-> None]
    ELSE
        LET parsed_type == Get(parsed.o, S_type)
            info == Get(parsed.o, S_info)
        IN  IF program_id = Pubkey_to_string(SYSTEM_PROGRAM_ID) THEN
                IF parsed_type.some /\ parsed_type.v = Str(S_transfer)
                   /\ info.some /\ IsObject(info.v)
                THEN [accounts |-> <<str_or_empty(info.v.o, S_source),
                                     str_or_empty(info.v.o, S_destination)>>,
                      data |-> Some(transfer_template(
                                  IF Get(info.v.o, S_lamports).some
                                  THEN info.v.o[S_lamports] ELSE Null))]
                ELSE [accounts |-> info_accounts(info), data |-> None]
            ELSE IF program_id = Pubkey_to_string(ASSOCIATED_TOKEN_PROGRAM_ID) THEN
                [accounts |-> IF info.some /\ IsObject(info.v)
                              THEN StringValues(info.v.o, ATA_INFO_KEYS) ELSE <<>>,
                 data |-> None]
            ELSE [accounts |-> info_accounts(info),
                  data |-> IF info.some /\ info.v.k \in {"str", "num"} THEN info ELSE None]

\* bs58::decode(data).into_vec(), then "0x" and the bytes in hex
decode_base58_to_hex(data) ==
    IF ~AllIn(data, Base58Chars) THEN Err("Invalid base58 data")
    ELSE Ok(<<"0", "x">> \o hex_encode(Base58Decode(data)))

\* tools/parse.rs, lines 242-253: the data text of an instruction of a
\* block is decoded as base64, or else as base58, and replaced by "0x" and
\* the bytes in hex when there are bytes; otherwise it stays
block_data_value(text) ==
    LET Emit(bytes) ==
            IF bytes.some /\ bytes.v # <<>> THEN Str(<<"0", "x">> \o hex_encode(bytes.v))
            ELSE Str(text)
        Fallback(decoded) ==
            IF decoded.some THEN decoded
            ELSE IF AllIn(text, Base58Chars) THEN Some(Base58Decode(text))
            ELSE None
    IN  Emit(Fallback(base64_decode(text)))

\* AccountInfo { pubkey, signer, writable } of each key of a parsed message
accounts_from_parsed(message) ==
    [i \in 1..Len(message.account_keys) |->
        [pubkey |-> message.account_keys[i].pubkey,
         signer |-> message.account_keys[i].signer,
         writable |-> message.account_keys[i].writable]]

\* The flags of a raw message follow from its header.  The two differences
\* are taken in usize; the headers of the model are those of a transaction
\* the ledger accepted, whose counts do not exceed what they are taken from.
accounts_from_raw(message) ==
    LET num_signers == message.header.num_required_signatures
        num_readonly_signed == message.header.num_readonly_signed_accounts
        num_readonly_unsigned == message.header.num_readonly_unsigned_accounts
    IN  [i \in 1..Len(message.account_keys) |->
            [pubkey |-> message.account_keys[i],
             signer |-> i - 1 < num_signers,
             writable |-> IF i - 1 < num_signers
                          THEN i - 1 < num_signers - num_readonly_signed
                          ELSE i - 1 < Len(message.account_keys) - num_readonly_unsigned]]

\* the entry with the owner and the mint exchanged
ata_entry_exchanged(owner, mint, ata_str) ==
    Obj(S_type :> Str(S_ata) @@ S_owner :> Str(mint) @@ S_mint :> Str(owner)
        @@ S_pubkey :> Str(ata_str))

\* the entry find_ata_accounts pushes for an owner and a mint
ata_entry(owner, mint, ata_str) ==
    Obj(S_type :> Str(S_ata) @@ S_owner :> Str(owner) @@ S_mint :> Str(mint)
        @@ S_pubkey :> Str(ata_str))

\* the associated-token address of two account strings, as text; None when
\* one of them is no address
ata_string(owner, mint) ==
    LET Derive(owner_key, mint_key) ==
            IF ~owner_key.ok \/ ~mint_key.ok THEN None
            ELSE Some(Pubkey_to_string(find_program_address(
                          <<owner_key.v, TOKEN_PROGRAM_ID, mint_key.v>>,
                          ASSOCIATED_TOKEN_PROGRAM_ID)))
    IN  Derive(Pubkey_from_str(owner), Pubkey_from_str(mint))

\* the loops `for owner in accounts { for mint in accounts {`: the pairs in
\* the order of the loops, and an entry for each pair whose address is in
\* the list
find_ata_accounts(accounts) ==
    LET n == Len(accounts)
        pairs == [k \in 1..(n * n) |->
                     [owner |-> accounts[((k - 1) \div n) + 1],
                      mint |-> accounts[((k - 1) % n) + 1],
                      ata |-> ata_string(accounts[((k - 1) \div n) + 1],
                                         accounts[((k - 1) % n) + 1])]]
        Found(pair) == pair.ata.some /\ pair.ata.v \in Range(accounts)
        found == SelectSeq(pairs, Found)
    IN  [k \in 1..Len(found) |-> ata_entry(found[k].owner, found[k].mint, found[k].ata.v)]

\* iter().position(|x| x == item): the 0-based index of the first match
RECURSIVE position_from(_, _, _)
position_from(list, item, i) ==
    IF i > Len(list) THEN None
    ELSE IF list[i] = item THEN Some(i - 1)
    ELSE position_from(list, item, i + 1)

\* position counting the first element as 1
position_one_based(list, item) ==
    LET Shift(index) == IF index.some THEN Some(index.v + 1) ELSE None
    IN  Shift(position_from(list, item, 1))

position(list, item) == position_from(list, item, 1)

\* format!("${}", n)
dollar(n) == <<"$">> \o DigitsToStr(IntToDigits(n))

\* iter().filter(flag).map(pubkey)
pubkeys_where(account_infos, flag) ==
    LET Keep(info) == info[flag]
        kept == SelectSeq(account_infos, Keep)
    IN  [i \in 1..Len(kept) |-> kept[i].pubkey]

\* (program_id, accounts_list, data) of the three kinds of UiInstruction
instruction_parts(ix, account_infos) ==
    CASE ix.kind = "compiled" ->
            [program_id |->
                IF ix.program_id_index < Len(account_infos)
                THEN account_infos[ix.program_id_index + 1].pubkey ELSE <<>>,
             accounts_list |->
                LET InRange(index) == index < Len(account_infos)
                    kept == SelectSeq(ix.accounts, InRange)
                IN  [i \in 1..Len(kept) |-> account_infos[kept[i] + 1].pubkey],
             data |-> Str(ix.data)]
      [] ix.kind = "parsed" ->
            LET Parts(native) ==
                    [program_id |-> ix.program_id,
                     accounts_list |-> native.accounts,
                     data |-> IF native.data.some THEN native.data.v
                              ELSE IF IsObject(ix.parsed) /\ S_info \in DOMAIN ix.parsed.o
                              THEN ix.parsed.o[S_info]
                              ELSE ix.parsed]
            IN  Parts(parse_native_program(ix.program_id, ix.parsed))
      [] ix.kind = "partially_decoded" ->
            [program_id |-> ix.program_id, accounts_list |-> ix.accounts,
             data |-> Str(ix.data)]

\* the pubkey of an output account: the first associated-token entry with
\* that address, or the address; then the signer placeholder, in the owner
\* of the entry or in place of the address
account_pubkey(account, ata_accounts, signers_accounts) ==
    LET Matches(ata) == Get(ata.o, S_pubkey) = Some(Str(account))
        Substitute(found) ==
            IF found = <<>> THEN
                LET Place(index) ==
                        IF index.some THEN Str(dollar(index.v + 1)) ELSE Str(account)
                IN  Place(position(signers_accounts, account))
            ELSE
                LET Owner(index) ==
                        IF index.some THEN Str(dollar(index.v + 1)) ELSE found[1].o[S_owner]
                IN  Obj(S_type :> Str(S_ata)
                        @@ S_owner :> Owner(position(signers_accounts, found[1].o[S_owner].s))
                        @@ S_mint :> found[1].o[S_mint])
    IN  Substitute(SelectSeq(ata_accounts, Matches))

\* one entry of accounts_output
account_output(account, ata_accounts, signers_accounts, writable_accounts) ==
    Obj(S_pubkey :> account_pubkey(account, ata_accounts, signers_accounts)
        @@ S_is_signer :> Bool(account \in Range(signers_accounts))
        @@ S_is_writable :> Bool(account \in Range(writable_accounts)))

\* the closure normalize_instruction of parse_tx_to_json
normalize_instruction(ix, account_infos, ata_accounts, signers_accounts, writable_accounts) ==
    LET Emit(parts, data) ==
            IF ~data.ok THEN data
            ELSE Ok(Obj(S_program_id :> Str(parts.program_id)
                        @@ S_data :> data.v
                        @@ S_accounts :>
                            Arr([i \in 1..Len(parts.accounts_list) |->
                                    account_output(parts.accounts_list[i], ata_accounts,
                                                   signers_accounts, writable_accounts)])))
        Hex(decoded) == IF decoded.ok THEN Ok(Str(decoded.v)) ELSE decoded
        Decode(parts) ==
            Emit(parts, IF IsString(parts.data) THEN Hex(decode_base58_to_hex(parts.data.s))
                        ELSE Ok(parts.data))
    IN  Decode(instruction_parts(ix, account_infos))

\* instructions.iter().map(normalize_instruction).collect::<Result<_>>()?:
\* the first error ends it
RECURSIVE normalize_all(_, _, _, _, _, _)
normalize_all(instructions, account_infos, ata_accounts, signers_accounts, writable_accounts, out) ==
    IF instructions = <<>> THEN Ok(out)
    ELSE LET Step(json) ==
                 IF ~json.ok THEN json
                 ELSE normalize_all(Tail(instructions), account_infos, ata_accounts,
                                    signers_accounts, writable_accounts, Append(out, json.v))
         IN  Step(normalize_instruction(Head(instructions), account_infos, ata_accounts,
                                        signers_accounts, writable_accounts))

\* the placeholders numbered from 1, as those of the addresses are
signers_json_from_one(signers_accounts) ==
    [index \in 1..Len(signers_accounts) |-> Str(dollar(index))]

\* format!("${}", signers_accounts.len() + index + 1) for each signer
signers_json(signers_accounts) ==
    [index \in 1..Len(signers_accounts) |-> Str(dollar(Len(signers_accounts) + index))]

\* the instructions of a message; those of a raw message are compiled ones
instructions_of(message) ==
    IF message.kind = "parsed" THEN message.instructions
    ELSE [i \in 1..Len(message.instructions) |->
            [kind |-> "compiled",
             program_id_index |-> message.instructions[i].program_id_index,
             accounts |-> message.instructions[i].accounts,
             data |-> message.instructions[i].data]]

\* tx: [encoding, message]; a message is parsed (account_keys with flags,
\* instructions of any kind) or raw (account_keys, header, compiled
\* instructions)
parse_tx_to_json(tx) ==
    IF tx.encoding # "json" THEN Err("Transaction encoding is not JSON")
    ELSE
        LET Template(instructions_json, signers_accounts) ==
                IF ~instructions_json.ok THEN instructions_json
                ELSE Ok(Obj(S_instructions :> Arr(instructions_json.v)
                            @@ S_signers :> Arr(signers_json(signers_accounts))))
            WithSigners(account_infos, signers_accounts, ata_accounts) ==
                Template(normalize_all(instructions_of(tx.message), account_infos, ata_accounts,
                                       signers_accounts,
                                       pubkeys_where(account_infos, "writable"), <<>>),
                         signers_accounts)
            WithAccounts(account_infos) ==
                WithSigners(account_infos, pubkeys_where(account_infos, "signer"),
                            find_ata_accounts([i \in 1..Len(account_infos) |->
                                                  account_infos[i].pubkey]))
        IN  WithAccounts(IF tx.message.kind = "parsed"
                         THEN accounts_from_parsed(tx.message)
                         ELSE accounts_from_raw(tx.message))

----------------------------------------------------------------------------
(* raw_tx.rs and json_tx.rs: the shorthand instructions *)

EmptyMap == [key \in {} |-> Null]

RawAccountMeta(pubkey, is_signer, is_writable) ==
    [pubkey |-> pubkey, is_signer |-> is_signer, is_writable |-> is_writable]

RawInstruction(program_id, data, accounts, extra) ==
    [program_id |-> program_id, data |-> data, accounts |-> accounts, extra |-> extra]

\* limit: u32, as decimal digits
set_cu_limit_tx(limit) ==
    RawInstruction(
        Pubkey_to_string(COMPUTE_BUDGET_PROGRAM_ID),
        Obj(S_type :> Str(S_object) @@
            S_data :> Arr(<<Obj(S_type :> Str(S_u8) @@ S_data :> Num(<<2>>)),
                            Obj(S_type :> Str(S_u32) @@ S_data :> Num(limit))>>)),
        <<>>,
        EmptyMap)

create_ata_tx(owner, mint) ==
    RawInstruction(
        Pubkey_to_string(ASSOCIATED_TOKEN_PROGRAM_ID),
        Num(<<0>>),
        <<RawAccountMeta(Str(owner), TRUE, TRUE),
          RawAccountMeta(Obj(S_type :> Str(S_ata) @@ S_owner :> Str(owner)
                             @@ S_mint :> Str(mint)), FALSE, TRUE),
          RawAccountMeta(Str(owner), TRUE, TRUE),
          RawAccountMeta(Str(mint), FALSE, FALSE),
          RawAccountMeta(Str(Pubkey_to_string(SYSTEM_PROGRAM_ID)), FALSE, FALSE),
          RawAccountMeta(Str(Pubkey_to_string(TOKEN_PROGRAM_ID)), FALSE, FALSE)>>,
        EmptyMap)

close_ata_tx(owner, mint) ==
    RawInstruction(
        Pubkey_to_string(TOKEN_PROGRAM_ID),
        Obj(S_type :> Str(S_u8) @@ S_data :> Num(<<9>>)),
        <<RawAccountMeta(Obj(S_type :> Str(S_ata) @@ S_owner :> Str(owner)
                             @@ S_mint :> Str(mint)), FALSE, TRUE),
          RawAccountMeta(Str(owner), TRUE, TRUE),
          RawAccountMeta(Str(owner), TRUE, TRUE)>>,
        EmptyMap)

\* the transfer with the amount tagged u32
transfer_tx_u32_amount(from, to, amount) ==
    RawInstruction(
        Pubkey_to_string(SYSTEM_PROGRAM_ID),
        Obj(S_type :> Str(S_object) @@
            S_data :> Arr(<<Obj(S_type :> Str(S_u32) @@ S_data :> Num(<<2>>)),
                            Obj(S_type :> Str(S_u32) @@ S_data :> amount)>>)),
        <<RawAccountMeta(Str(from), TRUE, TRUE), RawAccountMeta(Str(to), FALSE, TRUE)>>,
        EmptyMap)

\* the transfer with the signer flag on the receiving account
transfer_tx_to_signs(from, to, amount) ==
    RawInstruction(
        Pubkey_to_string(SYSTEM_PROGRAM_ID),
        Obj(S_type :> Str(S_object) @@
            S_data :> Arr(<<Obj(S_type :> Str(S_u32) @@ S_data :> Num(<<2>>)),
                            Obj(S_type :> Str(S_u64) @@ S_data :> amount)>>)),
        <<RawAccountMeta(Str(from), FALSE, TRUE), RawAccountMeta(Str(to), TRUE, TRUE)>>,
        EmptyMap)

transfer_tx(from, to, amount) ==
    RawInstruction(
        Pubkey_to_string(SYSTEM_PROGRAM_ID),
        Obj(S_type :> Str(S_object) @@
            S_data :> Arr(<<Obj(S_type :> Str(S_u32) @@ S_data :> Num(<<2>>)),
                            Obj(S_type :> Str(S_u64) @@ S_data :> amount)>>)),
        <<RawAccountMeta(Str(from), TRUE, TRUE), RawAccountMeta(Str(to), FALSE, TRUE)>>,
        EmptyMap)

\* (x as u32) of a u64: the low four bytes
u64_as_u32(x) == from_le_bytes(to_le_bytes(x, 4))

\* value.as_str().ok_or_else(|| anyhow!("Missing or invalid {label}"))
value_as_string(value) ==
    IF IsString(value) THEN Ok(value.s) ELSE Err("Missing or invalid")

\* the loop over ix.accounts: the first address that does not resolve ends it
RECURSIVE account_metas(_, _, _)
account_metas(accounts, ps, out) ==
    IF accounts = <<>> THEN Ok(out)
    ELSE LET Step(pubkey) ==
                 IF ~pubkey.ok THEN pubkey
                 ELSE account_metas(Tail(accounts), ps,
                                    Append(out, [pubkey |-> pubkey.v,
                                                 is_signer |-> Head(accounts).is_signer,
                                                 is_writable |-> Head(accounts).is_writable]))
         IN  Step(parse_pubkey(Head(accounts).pubkey, ps))

\* the result is an Instruction { program_id, accounts, data }
RECURSIVE parse_ix_from_json(_, _)
parse_ix_from_json(ix, ps) ==
    CASE ix.program_id = S_set_cu_limit ->
            LET Expand(limit) ==
                    IF ~limit.some \/ ~as_u64(limit.v).some THEN Err("Missing limit")
                    ELSE parse_ix_from_json(set_cu_limit_tx(u64_as_u32(as_u64(limit.v).v)), ps)
            IN  Expand(Get(ix.extra, S_limit))
      [] ix.program_id = S_transfer ->
            LET Expand(from, to, amount) ==
                    IF ~from.some THEN Err("Missing from")
                    ELSE IF ~to.some THEN Err("Missing to")
                    ELSE IF ~amount.some THEN Err("Missing amount")
                    ELSE IF ~value_as_string(from.v).ok THEN value_as_string(from.v)
                    ELSE IF ~value_as_string(to.v).ok THEN value_as_string(to.v)
                    ELSE parse_ix_from_json(transfer_tx(from.v.s, to.v.s, amount.v), ps)
            IN  Expand(Get(ix.extra, S_from), Get(ix.extra, S_to), Get(ix.extra, S_amount))
      [] ix.program_id \in {S_create_ata, S_close_ata} ->
            LET Expand(owner, mint) ==
                    IF ~owner.some THEN Err("Missing owner")
                    ELSE IF ~mint.some THEN Err("Missing mint")
                    ELSE IF ~value_as_string(owner.v).ok THEN value_as_string(owner.v)
                    ELSE IF ~value_as_string(mint.v).ok THEN value_as_string(mint.v)
                    ELSE parse_ix_from_json(
                             IF ix.program_id = S_create_ata
                             THEN create_ata_tx(owner.v.s, mint.v.s)
                             ELSE close_ata_tx(owner.v.s, mint.v.s), ps)
            IN  Expand(Get(ix.extra, S_owner), Get(ix.extra, S_mint))
      [] OTHER ->
            LET Build(program_id, accounts, data) ==
                    IF ~program_id.ok THEN Err("Invalid program id")
                    ELSE IF ~accounts.ok THEN accounts
                    ELSE IF ~data.ok THEN data
                    ELSE Ok([program_id |-> program_id.v, accounts |-> accounts.v,
                             data |-> data.v])
            IN  Build(Pubkey_from_str(ix.program_id), account_metas(ix.accounts, ps, <<>>),
                      pack_data(ix.data, ps))

----------------------------------------------------------------------------
(* tx_format/mod.rs and tools/data_format.rs: the stored template *)

\* Deserialize of RawTransaction, from the JSON of the file.  A field with
\* #[serde(default)] that the JSON lacks takes its default, the keys of an
\* instruction that are no field go to `extra` (flatten), other unknown
\* keys are dropped.
raw_transaction_from_json(json) ==
    LET Flag(map, key) ==
            IF key \notin DOMAIN map THEN Ok(FALSE)
            ELSE IF map[key].k = "bool" THEN Ok(map[key].b)
            ELSE Err("Invalid JSON")
        Account(v) ==
            IF ~IsObject(v) \/ S_pubkey \notin DOMAIN v.o
               \/ ~Flag(v.o, S_is_signer).ok \/ ~Flag(v.o, S_is_writable).ok
            THEN Err("Invalid JSON")
            ELSE Ok(RawAccountMeta(v.o[S_pubkey], Flag(v.o, S_is_signer).v,
                                   Flag(v.o, S_is_writable).v))
        Accounts(map) ==
            IF S_accounts \notin DOMAIN map THEN Ok(<<>>)
            ELSE IF ~IsArray(map[S_accounts])
                    \/ \E i \in 1..Len(map[S_accounts].a) : ~Account(map[S_accounts].a[i]).ok
            THEN Err("Invalid JSON")
            ELSE Ok([i \in 1..Len(map[S_accounts].a) |-> Account(map[S_accounts].a[i]).v])
        Instruction(v) ==
            IF ~IsObject(v) \/ S_program_id \notin DOMAIN v.o
            THEN Err("Invalid JSON")
            ELSE IF ~IsString(v.o[S_program_id]) \/ ~Accounts(v.o).ok
            THEN Err("Invalid JSON")
            ELSE Ok(RawInstruction(
                        v.o[S_program_id].s,
                        IF S_data \in DOMAIN v.o THEN v.o[S_data] ELSE Null,
                        Accounts(v.o).v,
                        [key \in DOMAIN v.o \ {S_program_id, S_data, S_accounts} |-> v.o[key]]))
        Tables(map) ==
            IF S_lookup_tables \notin DOMAIN map \/ map[S_lookup_tables] = Null THEN Ok(None)
            ELSE IF IsArray(map[S_lookup_tables]) THEN Ok(Some(map[S_lookup_tables].a))
            ELSE Err("Invalid JSON")
    IN  IF ~IsObject(json) \/ S_instructions \notin DOMAIN json.o
           \/ S_signers \notin DOMAIN json.o
        THEN Err("Invalid JSON")
        ELSE IF ~IsArray(json.o[S_instructions]) \/ ~IsArray(json.o[S_signers])
                \/ ~Tables(json.o).ok
                \/ \E i \in 1..Len(json.o[S_instructions].a) :
                       ~Instruction(json.o[S_instructions].a[i]).ok
        THEN Err("Invalid JSON")
        ELSE Ok([instructions |->
                     [i \in 1..Len(json.o[S_instructions].a) |->
                         Instruction(json.o[S_instructions].a[i]).v],
                 signers |-> json.o[S_signers].a,
                 lookup_tables |-> Tables(json.o).v])

\* Serialize of RawTransaction: every field is written, lookup_tables as
\* null when there is none, the extra keys beside the fields
raw_transaction_to_json(tx) ==
    LET Account(meta) ==
            Obj(S_pubkey :> meta.pubkey @@ S_is_signer :> Bool(meta.is_signer)
                @@ S_is_writable :> Bool(meta.is_writable))
        Instruction(ix) ==
            Obj((S_program_id :> Str(ix.program_id) @@ S_data :> ix.data
                 @@ S_accounts :> Arr([j \in 1..Len(ix.accounts) |-> Account(ix.accounts[j])]))
                @@ ix.extra)
    IN  Obj(S_instructions :>
                Arr([i \in 1..Len(tx.instructions) |-> Instruction(tx.instructions[i])])
            @@ S_signers :> Arr(tx.signers)
            @@ S_lookup_tables :>
                (IF tx.lookup_tables.some THEN Arr(tx.lookup_tables.v) ELSE Null))

\* lines 27-31: the rewritten template is serialized and written
write_template(file, tx, index, unpacked) ==
    IF ~unpacked.ok THEN [result |-> unpacked, file |-> file]
    ELSE [result |-> Ok(<<>>),
          file |-> raw_transaction_to_json(
                       [tx EXCEPT !.instructions[index].data = unpacked.v])]

\* the template is written, its data emptied, before the bytes are read back
unpack_instruction_data_written_first(file, schema, tx, index, data) ==
    IF ~data.ok
    THEN [result |-> data,
          file |-> raw_transaction_to_json([tx EXCEPT !.instructions[index].data = Null])]
    ELSE IF ~unpack_data(data.v, schema, 0).ok
    THEN [result |-> unpack_data(data.v, schema, 0),
          file |-> raw_transaction_to_json([tx EXCEPT !.instructions[index].data = Null])]
    ELSE write_template(file, tx, index, unpack_data(data.v, schema, 0))

\* line 26: the packed bytes read back through the schema
unpack_instruction_data(file, schema, tx, index, data) ==
    IF ~data.ok THEN [result |-> data, file |-> file]
    ELSE write_template(file, tx, index, unpack_data(data.v, schema, 0))

\* the loop of lines 23-33: the index of the first instruction of the
\* program, 0 when there is none
first_of_program(tx, program_id) ==
    LET hits == {i \in 1..Len(tx.instructions) : tx.instructions[i].program_id = program_id}
    IN  IF hits = {} THEN 0 ELSE CHOOSE i \in hits : \A k \in hits : i <= k

\* lines 23-37 on the loaded template and schema
rewrite_instruction(file, schema, tx, index) ==
    IF index = 0
    THEN [result |-> Err("Program ID not found in transaction instructions."), file |-> file]
    ELSE unpack_instruction_data(file, schema, tx, index,
                                 pack_data(tx.instructions[index].data, <<>>))

\* lines 16-21: the template, then the schema, is loaded; the first error
\* is returned and the file stays as it is
load_then_rewrite(file, data_format, program_id, tx) ==
    IF ~tx.ok THEN [result |-> tx, file |-> file]
    ELSE IF ~data_format.ok THEN [result |-> data_format, file |-> file]
    ELSE rewrite_instruction(file, data_format.v, tx.v, first_of_program(tx.v, program_id))

\* the data of every instruction of the given program, not of the first only
set_data_format_every(file, data_format, program_id) ==
    LET Rewrite(tx) ==
            IF ~tx.ok THEN [result |-> tx, file |-> file]
            ELSE IF ~data_format.ok THEN [result |-> data_format, file |-> file]
            ELSE
                LET New(ix) == unpack_data(pack_data(ix.data, <<>>).v, data_format.v, 0)
                    Hit(i) == tx.v.instructions[i].program_id = program_id
                IN  IF \A i \in 1..Len(tx.v.instructions) : ~Hit(i)
                    THEN [result |-> Err("Program ID not found in transaction instructions."),
                          file |-> file]
                    ELSE IF \E i \in 1..Len(tx.v.instructions) :
                                Hit(i) /\ (~pack_data(tx.v.instructions[i].data, <<>>).ok
                                           \/ ~New(tx.v.instructions[i]).ok)
                    THEN [result |-> Err("data"), file |-> file]
                    ELSE [result |-> Ok(<<>>),
                          file |-> raw_transaction_to_json(
                              [tx.v EXCEPT !.instructions =
                                  [i \in 1..Len(tx.v.instructions) |->
                                      IF Hit(i)
                                      THEN [tx.v.instructions[i] EXCEPT
                                                !.data = New(tx.v.instructions[i]).v]
                                      ELSE tx.v.instructions[i]]])]
    IN  Rewrite(raw_transaction_from_json(file))

\* file: the JSON of the template at tx_path; data_format: the JSON of the
\* file at format_path, or the error of reading it.  The result is the
\* Result of the call and the JSON at tx_path after it.
set_data_format(file, data_format, program_id) ==
    load_then_rewrite(file, data_format, program_id, raw_transaction_from_json(file))

----------------------------------------------------------------------------
(* src/src/utils.rs *)

\* str::trim: the text without its leading and trailing whitespace
RECURSIVE trim_end(_)
trim_end(s) ==
    IF s # <<>> /\ s[Len(s)] \in Whitespace THEN trim_end(SubSeq(s, 1, Len(s) - 1)) ELSE s

trim(s) == trim_end(SubSeq(s, SkipWs(s, 1), Len(s)))

remove_underscores(s) == SelectSeq(s, LAMBDA c : c # "_")

\* parts.join("_")
RECURSIVE join_underscore(_)
join_underscore(parts) ==
    IF parts = <<>> THEN <<>>
    ELSE IF Len(parts) = 1 THEN parts[1]
    ELSE parts[1] \o <<"_">> \o join_underscore(Tail(parts))

\* the groups taken from the start of the text, not from its end
RECURSIVE add_underscores_from_start(_)
add_underscores_from_start(s) ==
    IF Len(s) <= 3 THEN s
    ELSE SubSeq(s, 1, 3) \o <<"_">> \o add_underscores_from_start(SubSeq(s, 4, Len(s)))

\* the while loop of lines 8-12 with `end` at the given value and the parts
\* pushed so far, last pushed first; then the join of line 14
RECURSIVE add_underscores_loop(_, _, _)
add_underscores_loop(s, end, parts) ==
    IF end > 0
    THEN add_underscores_loop(s, IF end >= 3 THEN end - 3 ELSE 0,
                              <<SubSeq(s, (IF end >= 3 THEN end - 3 ELSE 0) + 1, end)>> \o parts)
    ELSE join_underscore(parts)

add_underscores(s) == add_underscores_loop(s, Len(s), <<>>)

\* str::split_once('.'): the text before and after the first '.'
split_once_dot(s) ==
    LET dots == {i \in 1..Len(s) : s[i] = "."}
        First(i) == Some([integer_part |-> SubSeq(s, 1, i - 1),
                          fractional_part |-> SubSeq(s, i + 1, Len(s))])
    IN  IF dots = {} THEN None ELSE First(CHOOSE i \in dots : \A k \in dots : i <= k)

format_amount_str(input) ==
    LET Parts(sign, split, raw) ==
            IF split.some
            THEN sign \o add_underscores(split.v.integer_part) \o <<".">>
                      \o add_underscores(split.v.fractional_part)
            ELSE sign \o add_underscores(raw)
        Signed(sign, raw) == Parts(sign, split_once_dot(raw), raw)
        Trimmed(trimmed) ==
            IF trimmed = <<>> THEN <<>>
            ELSE IF Head(trimmed) = "-" THEN Signed(<<"-">>, remove_underscores(Tail(trimmed)))
            ELSE Signed(<<>>, remove_underscores(trimmed))
    IN  Trimmed(trim(input))

\* ToString of the amounts passed to format_amount: an integer is its
\* decimal digits after '-' when negative, a string is itself
to_string(value) ==
    IF value.kind = "int"
    THEN (IF value.neg THEN <<"-">> ELSE <<>>) \o DigitsToStr(value.digits)
    ELSE value.s

format_amount(value) == format_amount_str(to_string(value))

----------------------------------------------------------------------------
(* Inputs of the calls *)

\* the longest parameter list drawn
MaxParams == 2

\* the most fields of a generated "object" value
MaxFields == 2

T_ref1 == <<"$", "1">>

T_ref2 == <<"$", "2">>

T_ref3 == <<"$", "3">>

T_ref5 == <<"$", "5">>

T_ref0 == <<"$", "0">>

T_ref01 == <<"$", "0", "1">>

T_refPlus1 == <<"$", "+", "1">>

T_refSpace1 == <<"$", " ", "1">>

T_ref1x == <<"$", "1", "x">>

T_dollar == <<"$">>

T_refMinus1 == <<"$", "-", "1">>

T_refHuge ==
    <<"$", "1", "8", "4", "4", "6", "7", "4", "4", "0", "7", "3", "7", "0", "9", "5", "5", "1",
      "6", "1", "6">>

T_literal == <<"l", "i", "t", "e", "r", "a", "l">>

T_abc == <<"a", "b", "c">>

ADDR_A ==
    <<"1", "1", "1", "1", "1", "1", "1", "1", "1", "1", "1", "1", "1", "1", "1", "1", "1", "1",
      "1", "1", "1", "1", "1", "1", "1", "1", "1", "1", "1", "1", "1", "2">>

ADDR_B ==
    <<"1", "1", "1", "1", "1", "1", "1", "1", "1", "1", "1", "1", "1", "1", "1", "1", "1", "1",
      "1", "1", "1", "1", "1", "1", "1", "1", "1", "1", "1", "1", "1", "3">>

T_system ==
    <<"1", "1", "1", "1", "1", "1", "1", "1", "1", "1", "1", "1", "1", "1", "1", "1", "1", "1",
      "1", "1", "1", "1", "1", "1", "1", "1", "1", "1", "1", "1", "1", "1">>

T_token ==
    <<"T", "o", "k", "e", "n", "k", "e", "g", "Q", "f", "e", "Z", "y", "i", "N", "w", "A", "J",
      "b", "N", "b", "G", "K", "P", "F", "X", "C", "W", "u", "B", "v", "f", "9", "S", "s", "6",
      "2", "3", "V", "Q", "5", "D", "A">>

T_ata_program ==
    <<"A", "T", "o", "k", "e", "n", "G", "P", "v", "b", "d", "G", "V", "x", "r", "1", "b", "2",
      "h", "v", "Z", "b", "s", "i", "q", "W", "5", "x", "W", "H", "2", "5", "e", "f", "T", "N",
      "s", "L", "J", "A", "8", "k", "n", "L">>

T_compute_budget ==
    <<"C", "o", "m", "p", "u", "t", "e", "B", "u", "d", "g", "e", "t", "1", "1", "1", "1", "1",
      "1", "1", "1", "1", "1", "1", "1", "1", "1", "1", "1", "1", "1", "1", "1", "1", "1", "1",
      "1", "1", "1", "1", "1", "1", "1">>

T_short == <<"1", "1", "1", "1", "1">>

B64_0001 == <<"A", "A", "E", "=">>

B64_abc == <<"Y", "W", "J", "j">>

B64_00 == <<"A", "A", "=", "=">>

T_hello == <<"h", "e", "l", "l", "o">>

HEX_01ff == <<"0", "x", "0", "1", "f", "f">>

\* "0x" before a character that is no hex digit: no hex, and of a length
\* that is no base64
HEX_0xz == <<"0", "x", "z">>

\* no hex after "0x", but four characters of the base64 alphabet
HEX_0xzz == <<"0", "x", "z", "z">>

T_json_u8_7 ==
    <<"[", "{", "\"", "t", "y", "p", "e", "\"", ":", "\"", "u", "8", "\"", ",", "\"", "d", "a", "t", "a", "\"", ":", "7", "}", "]">>

\* 2^53 - 1, 2^53 and 2^53 + 1
SAFE_MAX == MAX_SAFE_INTEGER

SAFE_MAX_PLUS_1 == <<9, 0, 0, 7, 1, 9, 9, 2, 5, 4, 7, 4, 0, 9, 9, 2>>

SAFE_MAX_PLUS_2 == <<9, 0, 0, 7, 1, 9, 9, 2, 5, 4, 7, 4, 0, 9, 9, 3>>

\* all sequences over S of length 0..n
RECURSIVE SeqsUpTo(_, _)
SeqsUpTo(S, n) ==
    IF n = 0 THEN {<<>>}
    ELSE LET shorter == SeqsUpTo(S, n - 1)
         IN  shorter \cup {Append(s, x) : s \in shorter, x \in S}

Typed(kind, data) == Obj(S_type :> Str(kind) @@ S_data :> data)

\* resolve_value
ResolveStrings ==
    {T_ref1, T_ref2, T_ref3, T_ref5, T_ref0, T_ref01, T_refPlus1, T_refSpace1, T_ref1x,
     T_dollar, T_refMinus1, T_refHuge, T_literal, T_abc, <<>>, <<"1">>}

ResolveValues ==
    {Str(s) : s \in ResolveStrings}
        \cup {Null, Bool(TRUE), Num(<<1>>), Arr(<<Str(T_ref1)>>), Typed(S_u8, Str(T_ref1))}

ResolveParams == SeqsUpTo({T_abc, T_ref2, ADDR_A}, MaxParams)

\* parse_pubkey
PubkeyStrings ==
    {ADDR_A, ADDR_B, T_system, T_token, T_short, T_abc, <<>>, S_system_program,
     S_token_program, S_associated_token_program, S_compute_budget_program,
     T_ref1, T_ref2, T_ref3, T_ref01}

Ata(owner, mint) == Obj(S_type :> Str(S_ata) @@ S_owner :> owner @@ S_mint :> mint)

PubkeyDescriptors ==
    {Str(s) : s \in PubkeyStrings}
        \cup {Obj(S_type :> Str(k)) :
                k \in {S_system_program, S_token_program, S_associated_token_program,
                       S_compute_budget_program, S_u8}}
        \cup {Ata(Str(o), Str(m)) : o \in {ADDR_A, ADDR_B, T_ref1, T_abc},
                                    m \in {ADDR_A, ADDR_B, T_token, T_ref2}}
        \cup {Ata(Ata(Str(ADDR_A), Str(ADDR_B)), Str(T_token)),
              Obj(S_type :> Str(S_ata) @@ S_owner :> Str(ADDR_A)),
              Obj(S_type :> Str(S_ata) @@ S_mint :> Str(ADDR_A)),
              Obj(S_owner :> Str(ADDR_A)), Null, Num(<<1>>)}

PubkeyParams ==
    {<<>>, <<ADDR_A>>, <<ADDR_B, ADDR_A>>, <<T_ref2, ADDR_B>>, <<T_ref2, T_system>>,
     <<T_ref2, T_ref1>>, <<T_ref1>>, <<T_abc>>, <<T_ref2, T_ref3, ADDR_A>>}

\* pack_data, then unpack_data with the packed value as schema
IntegerFields ==
    {Typed(S_u8, Num(<<2>>)), Typed(S_u8, Num(<<2, 5, 5>>)), Typed(S_u8, Num(<<3, 0, 0>>)),
     Typed(S_u16, Num(<<5, 0, 0>>)), Typed(S_u32, Num(<<4, 2>>)),
     Typed(S_u64, Num(<<9, 9>>)), Typed(S_u64, Num(SAFE_MAX)),
     Typed(S_u64, Num(SAFE_MAX_PLUS_1)), Typed(S_u64, Num(U64_MAX)),
     Typed(S_u64, Str(DigitsToStr(SAFE_MAX_PLUS_1)))}

TWO_POW_32_PLUS_7 == <<4, 2, 9, 4, 9, 6, 7, 3, 0, 3>>

\* integers at and past the width of their tag, as numbers and as text
WideFields ==
    {Typed(S_u8, Num(<<2, 5, 6>>)), Typed(S_u8, Str(<<"5", "1", "1">>)),
     Typed(S_u8, Num(U64_MAX)), Typed(S_u16, Num(<<6, 5, 5, 3, 5>>)),
     Typed(S_u16, Num(<<7, 0, 0, 0, 0>>)), Typed(S_u32, Num(TWO_POW_32_PLUS_7)),
     Typed(S_u32, Num(U64_MAX)), Typed(S_u32, Num(<<4, 2, 9, 4, 9, 6, 7, 2, 9, 5>>)),
     Typed(S_u16, Bool(TRUE)), Typed(S_u32, NegNum(<<1>>)),
     Typed(S_u8, Str(DigitsToStr(<<1>> \o U64_MAX)))}

ScalarValues ==
    IntegerFields \cup WideFields
        \cup {Typed(S_boolean, Bool(TRUE)),
              Typed(S_pubkey, Str(ADDR_A)), Typed(S_pubkey, Str(T_token)),
              Obj(S_type :> Str(S_bytes) @@ S_size :> Num(<<2>>) @@ S_data :> Str(B64_0001)),
              Obj(S_type :> Str(S_bytes) @@ S_Size :> Num(<<2>>) @@ S_data :> Str(B64_0001)),
              Obj(S_type :> Str(S_string) @@ S_length :> Num(<<3>>) @@ S_data :> Str(B64_abc)),
              Obj(S_type :> Str(S_string) @@ S_length :> Num(<<3>>) @@ S_data :> Str(T_abc))}

\* the value of the unit test pack_and_unpack_roundtrip
TestPayload ==
    Obj(S_type :> Str(S_object) @@ S_name :> Str(S_payload) @@
        S_data :> Arr(<<Typed(S_u8, Num(<<2>>)), Typed(S_u16, Num(<<5, 0, 0>>)),
                        Typed(S_u32, Num(<<4, 2>>)), Typed(S_u64, Num(<<9, 9>>))>>))

ObjectValues ==
    {Typed(S_object, Arr(fs)) : fs \in SeqsUpTo(IntegerFields, MaxFields)}
        \cup {Obj(S_type :> Str(S_object) @@ S_name :> Str(S_payload) @@ S_data :> Arr(fs)) :
                fs \in SeqsUpTo(IntegerFields, MaxFields)}
        \cup {TestPayload,
              Typed(S_object, Arr(<<Typed(S_u8, Num(<<7>>)),
                                    Typed(S_object, Arr(<<Typed(S_u16, Num(<<5, 0, 0>>))>>)),
                                    Typed(S_pubkey, Str(ADDR_A))>>)),
              Typed(S_object, Str(T_ref1)), Typed(S_object, Str(T_ref2)),
              Typed(S_object, Arr(<<Typed(S_u8, Num(<<1>>)), Str(T_hello),
                                    Typed(S_ata, Num(<<1>>))>>)),
              Typed(S_object, Arr(<<Typed(S_ata, Num(<<1>>)), Str(T_hello)>>)),
              Typed(S_object, Arr(<<Typed(S_u8, Num(<<1>>)),
                                    Typed(S_object, Arr(<<Typed(S_u16, Num(<<2>>)),
                                                          Str(HEX_0xz)>>)),
                                    Str(T_hello)>>))}

\* the longest array drawn for the Array arm
MaxEntries == 2

T_minus1 == <<"-", "1">>

T_plus300 == <<"+", "3", "0", "0">>

\* entries of every JSON kind: integers inside and outside i64, a number
\* with a fraction, numeric and other strings, placeholders, booleans, null,
\* an array and an object
ArrayEntries ==
    {Num(<<0>>), Num(<<2, 5, 6>>), Num(<<5, 1, 1>>), Num(I64_MAX), Num(I64_MIN_MAGNITUDE),
     NegNum(<<1>>), NegNum(<<2, 5, 7>>), NegNum(I64_MIN_MAGNITUDE), FloatNum(<<1>>),
     Str(<<"7">>), Str(T_minus1), Str(T_plus300), Str(T_hello), Str(<<>>),
     Str(T_ref1), Str(T_ref2), Bool(TRUE), Bool(FALSE), Null, Arr(<<>>),
     Typed(S_u8, Num(<<1>>))}

ArrayValues == {Arr(items) : items \in SeqsUpTo(ArrayEntries, MaxEntries)}

PackValues ==
    ScalarValues \cup ObjectValues \cup ArrayValues
        \cup {Null, Bool(TRUE), Bool(FALSE), Num(<<0>>), Num(<<3>>), NegNum(<<1>>),
              FloatNum(<<1>>), Str(HEX_01ff), Str(B64_0001), Str(T_hello), Str(T_ref1),
              Str(HEX_0xz), Str(HEX_0xzz),
              Num(<<2, 5, 6>>), Num(I64_MIN_MAGNITUDE), FloatNum(<<1, 5>>),
              Arr(<<Num(<<1>>), Num(<<2, 5, 6>>), NegNum(<<1>>), Str(<<"7">>), Bool(TRUE)>>),
              Arr(<<Num(<<1>>), Null>>),
              Typed(S_u8, Str(T_ref1)), Typed(S_ata, Num(<<1>>)),
              Obj(S_type :> Str(S_u8)), Obj(S_data :> Num(<<1>>))}

\* the text ` [{"type":"u16","data":500}, {"type":"u8","data":"$2"}]`
T_json_u16_u8 ==
    <<" ", "[", "{", "\"", "t", "y", "p", "e", "\"", ":", "\"", "u", "1", "6", "\"", ",", "\"",
      "d", "a", "t", "a", "\"", ":", "5", "0", "0", "}", ",", " ", "{", "\"", "t", "y", "p",
      "e", "\"", ":", "\"", "u", "8", "\"", ",", "\"", "d", "a", "t", "a", "\"", ":", "\"",
      "$", "2", "\"", "}", "]">>

PackParams == {<<>>, <<T_json_u8_7>>, <<<<"7">>>>, <<T_json_u16_u8, <<"9">>>>}

\* unpack_data on a given buffer
UnpackBuffers ==
    {to_le_bytes(n, 8) :
        n \in {<<0>>, <<9, 9>>, SAFE_MAX, SAFE_MAX_PLUS_1, SAFE_MAX_PLUS_2, U64_MAX}}
        \cup {<<1>>, <<>>, <<244, 1, 0>>, <<1, 2, 3, 4, 5, 6, 7, 8>>}

\* a schema entry of one tag
Field(kind) == Obj(S_type :> Str(kind))

\* array and object schemas of several fields: fields of different widths,
\* bytes and string fields, an object inside an object, an array inside an
\* array, and no field
ListSchemas ==
    {Arr(<<Field(S_u16), Field(S_u8), Field(S_u32)>>),
     Arr(<<Obj(S_type :> Str(S_string) @@ S_length :> Num(<<2>>)),
           Obj(S_type :> Str(S_bytes) @@ S_Size :> Num(<<3>>) @@ S_size :> Num(<<1>>)),
           Field(S_u8)>>),
     Arr(<<Field(S_u8), Typed(S_object, Arr(<<Field(S_u16), Field(S_u8)>>)), Field(S_u16)>>),
     Arr(<<Arr(<<Field(S_u8)>>), Field(S_u8)>>),
     Arr(<<>>),
     Typed(S_object, Arr(<<Field(S_u8), Field(S_boolean), Field(S_u32)>>)),
     Typed(S_object, Arr(<<Typed(S_object, Arr(<<Field(S_u8),
                                                 Typed(S_object, Arr(<<Field(S_u16)>>))>>)),
                           Field(S_u8), Field(S_u64)>>)),
     Obj(S_type :> Str(S_object) @@ S_name :> Str(S_payload)
            @@ S_data :> Arr(<<Field(S_u32), Field(S_u16)>>)),
     Typed(S_object, Arr(<<>>))}

UnpackSchemas ==
    {Obj(S_type :> Str(k)) : k \in {S_u8, S_u16, S_u32, S_u64, S_boolean, S_pubkey, S_ata}}
        \cup {Obj(S_type :> Str(S_bytes) @@ S_size :> Num(<<2>>)),
              Obj(S_type :> Str(S_bytes) @@ S_Size :> Num(<<2>>)),
              Obj(S_type :> Str(S_string) @@ S_length :> Num(<<2>>)),
              Arr(<<Obj(S_type :> Str(S_u8)), Obj(S_type :> Str(S_u16))>>),
              Null}
        \cup ListSchemas


UnpackOffsets == {0, 1}

\* parse_native_program
Lamports == {Num(<<1, 0, 0, 0>>), Num(SAFE_MAX), Num(SAFE_MAX_PLUS_1), Num(U64_MAX)}

TransferInfo(lamports) ==
    Obj(S_source :> Str(ADDR_A) @@ S_destination :> Str(ADDR_B) @@ S_lamports :> lamports)

ParsedInstructions ==
    {Obj(S_type :> Str(S_transfer) @@ S_info :> TransferInfo(l)) : l \in Lamports}
        \cup {Obj(S_type :> Str(S_transfer) @@ S_info :> Obj(S_source :> Str(ADDR_A))),
              Obj(S_type :> Str(S_account) @@ S_info :> TransferInfo(Num(<<1>>))),
              Obj(S_type :> Str(S_transfer) @@ S_info :> Str(T_abc)),
              Obj(S_info :> Num(<<5>>)),
              Obj(S_info :> Obj(S_wallet :> Str(ADDR_A) @@ S_mint :> Str(ADDR_B)
                                 @@ S_account :> Str(T_token) @@ S_lamports :> Num(<<1>>))),
              Str(T_abc)}

ProgramIds == {T_system, T_ata_program, T_token}

\* parse_tx_to_json: a wallet, a mint, a fee payer, and the associated-token
\* address of the wallet and the mint
ADDR_C ==
    <<"1", "1", "1", "1", "1", "1", "1", "1", "1", "1", "1", "1", "1", "1", "1", "1", "1", "1",
      "1", "1", "1", "1", "1", "1", "1", "1", "1", "1", "1", "1", "1", "4">>

ATA_AB == ata_string(ADDR_A, ADDR_B).v

B58_3Q == <<"3", "Q">>

\* text that is base64 (bytes 69 b7 1d) and base58 (bytes 64 06 02) alike
T_abcd == <<"a", "b", "c", "d">>

Key(pubkey, signer, writable) == [pubkey |-> pubkey, signer |-> signer, writable |-> writable]

\* account keys of a transaction are pairwise distinct, the signers first
ParsedAccountKeys ==
    {<<Key(ADDR_A, TRUE, TRUE), Key(ATA_AB, FALSE, TRUE), Key(ADDR_B, FALSE, FALSE),
       Key(T_token, FALSE, FALSE)>>,
     <<Key(ADDR_C, TRUE, TRUE), Key(ADDR_B, TRUE, TRUE), Key(ADDR_A, FALSE, FALSE),
       Key(ATA_AB, FALSE, TRUE), Key(T_system, FALSE, FALSE)>>,
     <<Key(ADDR_A, TRUE, TRUE), Key(ADDR_B, FALSE, TRUE), Key(T_system, FALSE, FALSE)>>}

Compiled(program_id_index, accounts, data) ==
    [kind |-> "compiled", program_id_index |-> program_id_index, accounts |-> accounts,
     data |-> data]

ParsedIx(program_id, parsed) ==
    [kind |-> "parsed", program_id |-> program_id, parsed |-> parsed]

PartiallyDecoded(program_id, accounts, data) ==
    [kind |-> "partially_decoded", program_id |-> program_id, accounts |-> accounts,
     data |-> data]

UiInstructions ==
    {Compiled(3, <<0, 1, 2, 9>>, B58_3Q),
     ParsedIx(T_system, Obj(S_type :> Str(S_transfer) @@ S_info :> TransferInfo(Num(<<1, 0, 0, 0>>)))),
     ParsedIx(T_system, Obj(S_type :> Str(S_transfer) @@ S_info :> Obj(S_source :> Str(ADDR_A)))),
     ParsedIx(T_system, Obj(S_type :> Str(S_transfer) @@ S_info :> Str(T_abc))),
     ParsedIx(T_token, Obj(S_type :> Str(S_transfer)
                           @@ S_info :> Obj(S_source :> Str(ATA_AB) @@ S_mint :> Str(ADDR_B)
                                            @@ S_owner :> Str(ADDR_A)))),
     ParsedIx(T_compute_budget, Str(T_hello)),
     PartiallyDecoded(T_compute_budget, <<ATA_AB, ADDR_B, ADDR_A, ATA_AB>>, B58_3Q),
     PartiallyDecoded(T_compute_budget, <<ADDR_C>>, T_hello),
     PartiallyDecoded(T_compute_budget, <<ADDR_C>>, T_abcd),
     PartiallyDecoded(T_compute_budget, <<ADDR_C>>, <<>>)}

MaxInstructions == 2

\* the instructions drawn in lists of more than one instruction
ListedInstructions ==
    {Compiled(3, <<0, 1, 2, 9>>, B58_3Q),
     ParsedIx(T_system, Obj(S_type :> Str(S_transfer) @@ S_info :> TransferInfo(Num(<<1, 0, 0, 0>>)))),
     ParsedIx(T_compute_budget, Str(T_hello)),
     PartiallyDecoded(T_compute_budget, <<ATA_AB, ADDR_B, ADDR_A, ATA_AB>>, B58_3Q)}

InstructionLists ==
    {<<ix>> : ix \in UiInstructions}
        \cup UNION {[1..n -> ListedInstructions] : n \in 2..MaxInstructions}

ParsedTransactions ==
    {[encoding |-> "json",
      message |-> [kind |-> "parsed", account_keys |-> keys, instructions |-> list]] :
        keys \in ParsedAccountKeys, list \in InstructionLists}

Header(signatures, readonly_signed, readonly_unsigned) ==
    [num_required_signatures |-> signatures,
     num_readonly_signed_accounts |-> readonly_signed,
     num_readonly_unsigned_accounts |-> readonly_unsigned]

RawCompiledInstructions ==
    {[program_id_index |-> 3, accounts |-> <<0, 2, 1>>, data |-> B58_3Q],
     [program_id_index |-> 7, accounts |-> <<1, 8, 0>>, data |-> <<>>]}

RawMessages ==
    {[kind |-> "raw", account_keys |-> <<ADDR_A, ADDR_B, ATA_AB, T_token>>,
      header |-> h, instructions |-> list] :
        h \in {Header(1, 0, 2), Header(2, 1, 1)},
        list \in UNION {[1..n -> RawCompiledInstructions] : n \in 1..MaxInstructions}}

RawTransactions ==
    {[encoding |-> e, message |-> m] : e \in {"json", "binary"}, m \in RawMessages}

\* parse_ix_from_json
T_1000 == <<"1", "0", "0", "0">>

IxParams == {<<>>, <<ADDR_A, T_1000>>}

Shorthand(program_id, extra) == RawInstruction(program_id, Null, <<>>, extra)

\* 4294967301 = 2^32 + 5
OVER_U32 == <<4, 2, 9, 4, 9, 6, 7, 3, 0, 1>>

\* lamports of a transfer: 0, small, 2^32 + 5, around 2^53, the largest u64
TransferAmounts ==
    {Num(<<0>>), Num(<<1, 0, 0, 0>>), Num(OVER_U32), Num(SAFE_MAX), Num(SAFE_MAX_PLUS_1),
     Num(U64_MAX)}

\* the instruction of a template that the decompiler wrote for a system
\* transfer of the given lamports from ADDR_A to ADDR_B
DecompiledTransfer(lamports) ==
    RawInstruction(
        T_system,
        parse_native_program(
            T_system, Obj(S_type :> Str(S_transfer) @@ S_info :> TransferInfo(lamports))).data.v,
        <<RawAccountMeta(Str(ADDR_A), TRUE, TRUE), RawAccountMeta(Str(ADDR_B), FALSE, TRUE)>>,
        EmptyMap)

\* the `transfer` shorthand of a template with the given amount
TransferShorthand(amount) ==
    Shorthand(S_transfer, S_from :> Str(ADDR_A) @@ S_to :> Str(ADDR_B) @@ S_amount :> amount)

RawInstructions ==
    {Shorthand(S_set_cu_limit, extra) :
        extra \in {S_limit :> Num(<<2, 0, 0, 0, 0, 0>>), S_limit :> Num(OVER_U32),
                   S_limit :> NegNum(<<1>>), S_limit :> Str(<<"7">>), EmptyMap}}
    \cup {Shorthand(S_transfer, S_from :> from @@ S_to :> Str(ADDR_B) @@ S_amount :> amount) :
            from \in {Str(ADDR_A), Str(T_ref1), Num(<<1>>)},
            amount \in {Num(<<1, 0, 0, 0>>), Str(T_ref2), Str(T_abc)}}
    \cup {Shorthand(S_transfer, S_from :> Str(ADDR_A) @@ S_amount :> Num(<<1>>))}
    \cup {DecompiledTransfer(l) : l \in TransferAmounts}
    \cup {TransferShorthand(l) : l \in TransferAmounts}
    \cup {Shorthand(kind, S_owner :> owner @@ S_mint :> Str(ADDR_B)) :
            kind \in {S_create_ata, S_close_ata}, owner \in {Str(ADDR_A), Str(T_ref1), Null}}
    \cup {Shorthand(S_create_ata, S_owner :> Str(ADDR_A))}
    \cup {RawInstruction(T_token, Typed(S_u8, Num(<<9>>)),
                         <<RawAccountMeta(Str(T_ref1), TRUE, FALSE)>>, EmptyMap),
          RawInstruction(T_short, Null, <<>>, EmptyMap)}

\* set_data_format: templates written by hand, the transactions whose
\* decompiled template is stored, the format files and the program ids
HEX_02 == <<"0", "x", "0", "2">>

S_note == <<"n", "o", "t", "e">>

HandTemplates ==
    {Obj(S_instructions :>
             Arr(<<Obj(S_program_id :> Str(T_system) @@ S_data :> Str(HEX_02)),
                   Obj(S_program_id :> Str(T_token) @@ S_data :> Str(HEX_01ff)
                       @@ S_accounts :> Arr(<<Obj(S_pubkey :> Str(T_ref1)
                                                  @@ S_is_signer :> Bool(TRUE))>>)
                       @@ S_note :> Str(T_abc)),
                   Obj(S_program_id :> Str(S_transfer) @@ S_from :> Str(T_ref1)
                       @@ S_to :> Str(ADDR_B) @@ S_amount :> Num(<<5>>)),
                   Obj(S_program_id :> Str(T_token) @@ S_data :> Str(HEX_02))>>)
         @@ S_signers :> Arr(<<Str(T_ref2)>>)
         @@ S_name :> Str(T_abc)),
     Obj(S_instructions :>
             Arr(<<Obj(S_program_id :> Str(T_token)
                       @@ S_data :> Typed(S_u8, Num(<<7>>))
                       @@ S_accounts :> Arr(<<>>))>>)
         @@ S_signers :> Arr(<<>>)
         @@ S_lookup_tables :> Arr(<<Str(ADDR_C)>>)),
     Obj(S_instructions :> Arr(<<Obj(S_program_id :> Str(T_token))>>)),
     Obj(S_instructions :>
             Arr(<<Obj(S_program_id :> Str(T_token) @@ S_data :> Str(HEX_0xz)),
                   Obj(S_program_id :> Str(T_token) @@ S_data :> Str(HEX_02)),
                   Obj(S_program_id :> Str(T_system) @@ S_data :> Typed(S_ata, Num(<<1>>)))>>)
         @@ S_signers :> Arr(<<>>))}

DumpedTransactions ==
    {[encoding |-> "json",
      message |-> [kind |-> "parsed",
                   account_keys |-> <<Key(ADDR_A, TRUE, TRUE), Key(ATA_AB, FALSE, TRUE),
                                      Key(ADDR_B, FALSE, FALSE), Key(T_token, FALSE, FALSE)>>,
                   instructions |-> list]] :
        list \in {<<Compiled(3, <<0, 1, 2, 9>>, B58_3Q)>>,
                  <<ParsedIx(T_system, Obj(S_type :> Str(S_transfer)
                                           @@ S_info :> TransferInfo(Num(<<1, 0, 0, 0>>)))),
                    Compiled(3, <<1>>, B58_3Q)>>,
                  <<PartiallyDecoded(T_compute_budget, <<ADDR_C>>, T_hello)>>}}

DataFormats ==
    {Ok(Obj(S_type :> Str(S_u8))),
     Ok(Arr(<<Obj(S_type :> Str(S_u8) @@ S_name :> Str(T_abc)), Obj(S_type :> Str(S_u8))>>)),
     Ok(Obj(S_type :> Str(S_u16))),
     Err("invalid JSON")}

FormatProgramIds == {T_token, T_system, S_transfer, T_ata_program}

\* format_amount
IntAmount(neg, digits) == [kind |-> "int", neg |-> neg, digits |-> digits]

TextAmount(s) == [kind |-> "str", s |-> s]

IntegerAmounts ==
    {IntAmount(FALSE, <<0>>), IntAmount(FALSE, <<7>>), IntAmount(FALSE, <<1, 2>>), IntAmount(FALSE, <<1, 2, 3>>),
     IntAmount(FALSE, <<1, 2, 3, 4>>), IntAmount(FALSE, <<1, 2, 3, 4, 5>>),
     IntAmount(FALSE, <<1, 0, 0, 0, 0, 0>>), IntAmount(FALSE, <<1, 0, 0, 0, 0, 0, 0>>),
     IntAmount(FALSE, <<1, 2, 3, 4, 5, 6, 7, 8, 9>>), IntAmount(FALSE, U64_MAX),
     IntAmount(TRUE, <<1>>), IntAmount(TRUE, <<1, 2, 3>>), IntAmount(TRUE, <<1, 2, 3, 4>>),
     IntAmount(TRUE, <<9, 8, 7, 6, 5, 4>>), IntAmount(TRUE, I64_MIN_MAGNITUDE)}

TextAmounts ==
    {TextAmount(<<"1", "2", "3", "4", "5", "6", "7", ".", "8", "9", "0", "1">>),
     TextAmount(<<"0", ".", "5">>),
     TextAmount(<<"1", "2", "3", ".", "4", "5", "6">>),
     TextAmount(<<"-", "1", "2", "3", "4", ".", "1", "2", "3", "4", "5", "6", "7">>),
     TextAmount(<<"1", "2", "3", "4", ".", "0">>),
     TextAmount(<<"1", "_", "0", "0", "0">>),
     TextAmount(<<"1", "2", "_", "3", "4", ".", "5", "_", "6", "7", "8">>),
     TextAmount(<<" ", "4", "2", "0", "0", "0", "\n">>),
     TextAmount(<<>>), TextAmount(<<" ">>), TextAmount(<<"-">>),
     TextAmount(<<"1", "2", "3", "4", ".">>), TextAmount(<<".", "1", "2", "3", "4">>),
     TextAmount(<<"1", ".", "2", "3", "4", "5", ".", "6">>),
     TextAmount(<<"+", "1", "2", "3">>), TextAmount(<<"a", "b", "c", "d">>)}

----------------------------------------------------------------------------
(* The calls *)

NoArgs == [none |-> TRUE]

Init ==
    /\ op = "idle"
    /\ args = NoArgs
    /\ result = Null
    /\ packed = [value |-> Null, params |-> <<>>, bytes |-> <<>>]
    /\ stored = None

ResolveValue ==
    /\ op = "idle"
    /\ \E v \in ResolveValues, ps \in ResolveParams :
        /\ args' = [value |-> v, params |-> ps]
        /\ result' = resolve_value(v, ps)
    /\ op' = "resolve_value"
    /\ UNCHANGED <<packed, stored>>

ParsePubkey ==
    /\ op = "idle"
    /\ \E v \in PubkeyDescriptors, ps \in PubkeyParams :
        /\ args' = [value |-> v, params |-> ps]
        /\ result' = parse_pubkey(v, ps)
    /\ op' = "parse_pubkey"
    /\ UNCHANGED <<packed, stored>>

PackData ==
    /\ op = "idle"
    /\ \E v \in PackValues, ps \in PackParams :
        LET Keep(bytes) ==
                /\ args' = [value |-> v, params |-> ps]
                /\ result' = bytes
                /\ packed' = IF bytes.ok
                             THEN [value |-> v, params |-> ps, bytes |-> bytes.v]
                             ELSE packed
        IN  Keep(pack_data(v, ps))
    /\ op' = "pack_data"
    /\ UNCHANGED stored

\* the round trip of the unit test: the packed value is the schema
UnpackPacked ==
    /\ op = "pack_data"
    /\ result.ok
    /\ args' = [buffer |-> packed.bytes, schema |-> packed.value, offset |-> 0]
    /\ result' = unpack_data(packed.bytes, packed.value, 0)
    /\ op' = "unpack_data"
    /\ UNCHANGED <<packed, stored>>

UnpackBuffer ==
    /\ op = "idle"
    /\ \E buf \in UnpackBuffers, sch \in UnpackSchemas, off \in UnpackOffsets :
        /\ args' = [buffer |-> buf, schema |-> sch, offset |-> off]
        /\ result' = unpack_data(buf, sch, off)
    /\ op' = "unpack_data"
    /\ UNCHANGED <<packed, stored>>

GetByteLength ==
    /\ op = "unpack_data"
    /\ result.ok
    /\ args' = [entry |-> result.v]
    /\ result' = get_byte_length(result.v)
    /\ op' = "get_byte_length"
    /\ UNCHANGED <<packed, stored>>

ParseNativeProgram ==
    /\ op = "idle"
    /\ \E id \in ProgramIds, parsed \in ParsedInstructions :
        /\ args' = [program_id |-> id, parsed |-> parsed]
        /\ result' = parse_native_program(id, parsed)
    /\ op' = "parse_native_program"
    /\ UNCHANGED <<packed, stored>>

ParseTxToJson ==
    /\ op = "idle"
    /\ \/ \E tx \in ParsedTransactions :
            /\ args' = [tx |-> tx]
            /\ result' = parse_tx_to_json(tx)
       \/ \E tx \in RawTransactions :
            /\ args' = [tx |-> tx]
            /\ result' = parse_tx_to_json(tx)
    /\ op' = "parse_tx_to_json"
    /\ UNCHANGED <<packed, stored>>

ParseIxFromJson ==
    /\ op = "idle"
    /\ \E ix \in RawInstructions, ps \in IxParams :
        /\ args' = [ix |-> ix, params |-> ps]
        /\ result' = parse_ix_from_json(ix, ps)
    /\ op' = "parse_ix_from_json"
    /\ UNCHANGED <<packed, stored>>

\* tools/parse.rs: the transaction of a signature is decompiled and the
\* template written to <signature>.json
CreateJsonFromTx ==
    /\ op = "idle"
    /\ \E tx \in DumpedTransactions :
        LET Write(json) ==
                /\ args' = [tx |-> tx]
                /\ result' = IF json.ok THEN Ok(<<>>) ELSE json
                /\ stored' = IF json.ok THEN Some(json.v) ELSE stored
        IN  Write(parse_tx_to_json(tx))
    /\ op' = "create_json_from_tx"
    /\ UNCHANGED packed

\* the user's step: a template written by hand is at the path
TemplateFile ==
    /\ op = "idle"
    /\ \E json \in HandTemplates : stored' = Some(json)
    /\ op' = "template_file"
    /\ UNCHANGED <<args, result, packed>>

SetDataFormat ==
    /\ op \in {"create_json_from_tx", "template_file"}
    /\ stored.some
    /\ \E data_format \in DataFormats, program_id \in FormatProgramIds :
        LET Done(out) ==
                /\ args' = [file |-> stored.v, data_format |-> data_format,
                            program_id |-> program_id]
                /\ result' = out.result
                /\ stored' = Some(out.file)
        IN  Done(set_data_format(stored.v, data_format, program_id))
    /\ op' = "set_data_format"
    /\ UNCHANGED packed

FormatAmount ==
    /\ op = "idle"
    /\ \E value \in IntegerAmounts \cup TextAmounts :
        /\ args' = [value |-> value]
        /\ result' = format_amount(value)
    /\ op' = "format_amount"
    /\ UNCHANGED <<packed, stored>>

Next ==
    \/ ResolveValue
    \/ ParsePubkey
    \/ PackData
    \/ UnpackPacked
    \/ UnpackBuffer
    \/ GetByteLength
    \/ ParseNativeProgram
    \/ ParseTxToJson
    \/ ParseIxFromJson
    \/ CreateJsonFromTx
    \/ TemplateFile
    \/ SetDataFormat
    \/ FormatAmount

Spec == Init /\ [][Next]_vars

----------------------------------------------------------------------------
(* Properties of the codec *)

IntegerTags == {S_u8, S_u16, S_u32, S_u64}

\* the largest value of an integer tag
MaxOfTag(kind) ==
    CASE kind = S_u8 -> <<2, 5, 5>>
      [] kind = S_u16 -> <<6, 5, 5, 3, 5>>
      [] kind = S_u32 -> <<4, 2, 9, 4, 9, 6, 7, 2, 9, 5>>
      [] kind = S_u64 -> <<1, 8, 4, 4, 6, 7, 4, 4, 0, 7, 3, 7, 0, 9, 5, 5, 1, 6, 1, 5>>

\* the number of bytes of an integer tag
BytesOfTag(kind) ==
    CASE kind = S_u8 -> 1
      [] kind = S_u16 -> 2
      [] kind = S_u32 -> 4
      [] kind = S_u64 -> 8

\* 2^53 - 1 and 2^53
TWO_POW_53_MINUS_1 == <<9, 0, 0, 7, 1, 9, 9, 2, 5, 4, 7, 4, 0, 9, 9, 1>>

T_two_pow_53 ==
    <<"9", "0", "0", "7", "1", "9", "9", "2", "5", "4", "7", "4", "0", "9", "9", "2">>

\* data is a JSON number inside the width of the tag
InWidth(kind, data) ==
    data.k = "num" /\ data.n = "pos" /\ ~DecGreater(data.digits, MaxOfTag(kind))

\* a typed value: a schema built from the nine tags that carries its data
RECURSIVE IsTypedValue(_)
IsTypedValue(v) ==
    /\ IsObject(v)
    /\ {S_type, S_data} \subseteq DOMAIN v.o
    /\ IsString(v.o[S_type])
    /\ LET kind == v.o[S_type].s
           data == v.o[S_data]
       IN  CASE kind \in IntegerTags -> InWidth(kind, data)
             [] kind = S_boolean -> data.k = "bool"
             [] kind = S_pubkey -> IsString(data) /\ Pubkey_from_str(data.s).ok
             [] kind \in {S_bytes, S_string} -> IsString(data)
             [] kind = S_object ->
                    IsArray(data) /\ \A i \in DOMAIN data.a : IsTypedValue(data.a[i])
             [] OTHER -> FALSE

\* out holds every field of v with v's value; the entries of an object's data
\* are compared in order, and a u64 may come back as its decimal string
RECURSIVE Reproduces(_, _)
Reproduces(out, v) ==
    /\ IsObject(out)
    /\ \A key \in DOMAIN v.o :
        /\ key \in DOMAIN out.o
        /\ IF key = S_data /\ v.o[S_type] = Str(S_object) THEN
               /\ IsArray(out.o[key])
               /\ Len(out.o[key].a) = Len(v.o[key].a)
               /\ \A i \in DOMAIN v.o[key].a : Reproduces(out.o[key].a[i], v.o[key].a[i])
           ELSE
               \/ out.o[key] = v.o[key]
               \/ /\ key = S_data
                  /\ v.o[S_type] = Str(S_u64)
                  /\ out.o[key] = Str(DigitsToStr(v.o[key].digits))

\* unpack_data has been applied at offset 0 to the buffer pack_data made of a
\* value, with that value as the schema
RoundTripped ==
    /\ op = "unpack_data"
    /\ packed.value # Null
    /\ args.schema = packed.value
    /\ args.buffer = packed.bytes
    /\ args.offset = 0

\* C1: for every typed value V built from the tags u8, u16, u32, u64,
\* boolean, pubkey, bytes, string and object that pack_data accepts,
\* unpack_data of the packed buffer with V as schema at offset 0 succeeds and
\* reproduces V field for field.
C1_RoundTrip ==
    (RoundTripped /\ IsTypedValue(packed.value)) =>
        result.ok /\ Reproduces(result.v, packed.value)

\* an "object" that holds its type, its data and at most a name, the data a
\* list of integer fields, each a JSON number inside its width and, for u64,
\* not above max
IsIntegerObject(v, max) ==
    /\ IsObject(v)
    /\ {S_type, S_data} \subseteq DOMAIN v.o
    /\ DOMAIN v.o \subseteq {S_type, S_name, S_data}
    /\ v.o[S_type] = Str(S_object)
    /\ IsArray(v.o[S_data])
    /\ \A i \in DOMAIN v.o[S_data].a :
        LET field == v.o[S_data].a[i]
        IN  /\ IsObject(field)
            /\ DOMAIN field.o = {S_type, S_data}
            /\ IsString(field.o[S_type])
            /\ field.o[S_type].s \in IntegerTags
            /\ InWidth(field.o[S_type].s, field.o[S_data])
            /\ field.o[S_type].s = S_u64 => ~DecGreater(field.o[S_data].digits, max)

\* the sum of the widths of the fields of an integer object
WidthOfFields(v) ==
    SumSeq([i \in DOMAIN v.o[S_data].a |-> BytesOfTag(v.o[S_data].a[i].o[S_type].s)])

IntegerObjectRoundTrip(max) ==
    /\ (op = "pack_data" /\ IsIntegerObject(args.value, max)) =>
            result.ok /\ Len(result.v) = WidthOfFields(args.value)
    /\ (RoundTripped /\ IsIntegerObject(packed.value, max)) =>
            /\ Len(packed.bytes) = WidthOfFields(packed.value)
            /\ result = Ok(packed.value)

\* C2 as stated: for every object whose data is a list of u8/u16/u32/u64
\* fields, each value inside its width, the packed buffer is as long as the
\* sum of the widths, and unpacking it with the value as schema returns the
\* identical structure.
C2_IntegerObjectRoundTrip == IntegerObjectRoundTrip(MaxOfTag(S_u64))

\* C2 amended: the same for objects whose u64 values are at most 2^53 - 1.
C2_SafeIntegerObjectRoundTrip == IntegerObjectRoundTrip(TWO_POW_53_MINUS_1)

\* C2 witness: the payload of one field of each width packs into 15 bytes and
\* comes back identical.
C2_PayloadRoundTripped ==
    /\ RoundTripped
    /\ packed.value = TestPayload
    /\ Len(packed.bytes) = 15
    /\ result = Ok(TestPayload)

\* C3: for every typed value V that pack_data(V, []) accepts, unpack_data of
\* the packed buffer with V as schema succeeds, and get_byte_length of what it
\* returns is the length of the packed buffer.
C3_ByteLengthConsistent ==
    /\ (RoundTripped /\ packed.params = <<>> /\ IsTypedValue(packed.value)) =>
            result.ok /\ get_byte_length(result.v) = Ok(Len(packed.bytes))
    /\ (op = "get_byte_length" /\ packed.value # Null /\ packed.params = <<>>
            /\ IsTypedValue(packed.value)) =>
            result = Ok(Len(packed.bytes))

\* "$N" for a position N
Reference(n) == <<"$">> \o DigitsToStr(IntToDigits(n))

IsReferencePattern(s) ==
    /\ Len(s) >= 2
    /\ s[1] = "$"
    /\ s[2] \in Range(DecimalChars) \ {"0"}
    /\ \A i \in 3..Len(s) : s[i] \in Range(DecimalChars)

\* the position a matching string names exists in ps
PositionExists(s, ps) == Len(s) <= 4 /\ DigitsToInt(StrToDigits(Tail(s)), 0) <= Len(ps)

\* C5: a string is replaced exactly when it matches ^\$([1-9][0-9]*)$ and its
\* position exists: a string that does not match is returned unchanged
\* whatever params holds, a matching one whose position exists becomes that
\* parameter.
C5_ReferencePattern ==
    (op = "resolve_value" /\ IsString(args.value)) =>
        IF IsReferencePattern(args.value.s) THEN
            PositionExists(args.value.s, args.params) =>
                result = Str(args.params[DigitsToInt(StrToDigits(Tail(args.value.s)), 0)])
        ELSE result = args.value

\* the schema is an object of type u64 and the buffer holds 8 bytes at the
\* offset
U64Unpacked ==
    /\ op = "unpack_data"
    /\ IsObject(args.schema)
    /\ Get(args.schema.o, S_type) = Some(Str(S_u64))
    /\ args.offset + 8 <= Len(args.buffer)

\* s is the decimal numeral of a u64, without sign or leading zero
IsDecimalNumeral(s) ==
    /\ s # <<>>
    /\ \A i \in DOMAIN s : s[i] \in Range(DecimalChars)
    /\ Len(s) > 1 => s[1] # "0"

\* C6: unpack_data with a u64 schema succeeds on every 8 little-endian bytes
\* and emits their value as a JSON number when it is at most 2^53 - 1 (the
\* two top bytes are 0 and at most 31) and as its decimal string when it is
\* 2^53 or greater; 2^53 - 1 comes out as the number 9007199254740991 and 2^53
\* as the string "9007199254740992".
C6_U64Boundary ==
    U64Unpacked =>
        LET bytes == SubSeq(args.buffer, args.offset + 1, args.offset + 8)
            safe  == bytes[8] = 0 /\ bytes[7] <= 31
        IN  /\ result.ok
            /\ IsObject(result.v)
            /\ S_data \in DOMAIN result.v.o
            /\ LET data == result.v.o[S_data]
               IN  /\ IF safe
                      THEN /\ data.k = "num"
                           /\ data.n = "pos"
                           /\ to_le_bytes(data.digits, 8) = bytes
                      ELSE /\ data.k = "str"
                           /\ IsDecimalNumeral(data.s)
                           /\ to_le_bytes(StrToDigits(data.s), 8) = bytes
                   /\ bytes = <<255, 255, 255, 255, 255, 255, 31, 0>> =>
                          data = Num(TWO_POW_53_MINUS_1)
                   /\ bytes = <<0, 0, 0, 0, 0, 0, 32, 0>> => data = Str(T_two_pow_53)

\* C6 witness: the 8 little-endian bytes of 2^53 have been unpacked as u64
\* into the string "9007199254740992".
C6_TwoPow53AsString ==
    /\ U64Unpacked
    /\ args.buffer = <<0, 0, 0, 0, 0, 0, 32, 0>>
    /\ args.offset = 0
    /\ result.ok
    /\ result.v.o[S_data] = Str(T_two_pow_53)

\* no entry of type u64 in v carries a JSON number above 2^53 - 1
RECURSIVE NoUnsafeU64Number(_)
NoUnsafeU64Number(v) ==
    CASE IsArray(v) -> \A i \in DOMAIN v.a : NoUnsafeU64Number(v.a[i])
      [] IsObject(v) ->
            /\ (Get(v.o, S_type) = Some(Str(S_u64)) /\ S_data \in DOMAIN v.o
                    /\ v.o[S_data].k = "num") =>
                    ~DecGreater(v.o[S_data].digits, TWO_POW_53_MINUS_1)
            /\ (S_data \in DOMAIN v.o /\ IsArray(v.o[S_data])) =>
                    NoUnsafeU64Number(v.o[S_data])
      [] OTHER -> TRUE

\* C7: what unpack_data returns and the data template of a decompiled
\* instruction (the lamports entry of a system transfer among them) never
\* carry a u64 above 2^53 - 1 as a JSON number.
C7_NoUnsafeU64Number ==
    /\ (op = "unpack_data" /\ result.ok) => NoUnsafeU64Number(result.v)
    /\ (op = "parse_native_program" /\ result.data.some) =>
            NoUnsafeU64Number(result.data.v)

\* the strings of the inputs that are valid addresses
ValidAddresses == {s \in PubkeyStrings \cup {T_token} : Pubkey_from_str(s).ok}

\* the address a valid string encodes
AddressOf(s) == Pubkey_from_str(s).v

\* C8: for valid owner and mint addresses O and M, parse_pubkey of
\* {"type":"ata","owner":O,"mint":M} returns the program-derived address of
\* the seeds [O, token program id, M], in that order, under the
\* associated-token program id.
C8_AtaDerivation ==
    op = "parse_pubkey" =>
        \A o \in ValidAddresses, m \in ValidAddresses :
            args.value = Ata(Str(o), Str(m)) =>
                result = Ok(find_program_address(
                                <<AddressOf(o), AddressOf(T_token), AddressOf(m)>>,
                                AddressOf(T_ata_program)))

\* C8 witness: the associated-token address of an owner and the token mint,
\* two different valid addresses, has been derived.
C8_AtaDerived ==
    /\ op = "parse_pubkey"
    /\ args.value = Ata(Str(ADDR_A), Str(T_token))
    /\ result.ok

WellKnownTags ==
    {S_system_program, S_token_program, S_associated_token_program, S_compute_budget_program}

\* the base58 text of the address of a well-known program
WellKnownAddress(tag) ==
    CASE tag = S_system_program -> T_system
      [] tag = S_token_program -> T_token
      [] tag = S_associated_token_program -> T_ata_program
      [] tag = S_compute_budget_program -> T_compute_budget

C10_StringDescriptor ==
    (op = "parse_pubkey" /\ IsString(args.value)) =>
        LET resolved == resolve_value(args.value, args.params)
        IN  IF Pubkey_from_str(resolved.s).ok
            THEN result = Ok(AddressOf(resolved.s))
            ELSE result = Err("Invalid pubkey")

\* the number of bytes a schema declares: the width of its tag, the `size`
\* of bytes, the `length` of a string, the sum over the entries of an array
\* or an object; None when the schema declares none
RECURSIVE DeclaredWidth(_)
RECURSIVE DeclaredWidthSum(_, _)
DeclaredWidth(sch) ==
    IF IsArray(sch) THEN DeclaredWidthSum(sch.a, 0)
    ELSE IF ~IsObject(sch) \/ Get(sch.o, S_type) = None \/ ~IsString(sch.o[S_type]) THEN None
    ELSE LET kind == sch.o[S_type].s
             Count(key) ==
                 IF key \in DOMAIN sch.o /\ sch.o[key].k = "num" /\ sch.o[key].n = "pos"
                    /\ Len(sch.o[key].digits) <= 3
                 THEN Some(DigitsToInt(sch.o[key].digits, 0)) ELSE None
         IN  CASE kind \in IntegerTags -> Some(BytesOfTag(kind))
               [] kind = S_boolean -> Some(1)
               [] kind = S_pubkey -> Some(32)
               [] kind = S_bytes -> Count(S_size)
               [] kind = S_string -> Count(S_length)
               [] kind = S_object ->
                      IF S_data \in DOMAIN sch.o /\ IsArray(sch.o[S_data])
                      THEN DeclaredWidthSum(sch.o[S_data].a, 0) ELSE None
               [] OTHER -> None

DeclaredWidthSum(list, total) ==
    IF list = <<>> THEN Some(total)
    ELSE LET Add(w) == IF w.some THEN DeclaredWidthSum(Tail(list), total + w.v) ELSE None
         IN  Add(DeclaredWidth(Head(list)))

\* C11: when fewer bytes remain at the offset than the schema declares (the
\* width of a scalar tag, the size of bytes, the length of a string, and for
\* an array or an object the widths of its entries one after the other),
\* unpack_data returns the out-of-bounds error and no value.
C11_OutOfBounds ==
    (op = "unpack_data" /\ DeclaredWidth(args.schema).some
        /\ args.offset + DeclaredWidth(args.schema).v > Len(args.buffer)) =>
        result = Err("Out of bounds")

\* C12: the decompiler returns a template for every JSON-encoded
\* transaction, whatever text the data strings of its instructions hold
C12_NeverFails ==
    (op = "parse_tx_to_json" /\ args.tx.encoding = "json") => result.ok

\* The addresses of a transaction's account list, and its signers in the
\* order of that list
TxKeys(tx) ==
    IF tx.message.kind = "parsed"
    THEN [i \in 1..Len(tx.message.account_keys) |-> tx.message.account_keys[i].pubkey]
    ELSE tx.message.account_keys

TxSigners(tx) ==
    IF tx.message.kind = "parsed"
    THEN LET Signs(key) == key.signer
             signing == SelectSeq(tx.message.account_keys, Signs)
         IN  [i \in 1..Len(signing) |-> signing[i].pubkey]
    ELSE SubSeq(tx.message.account_keys, 1, tx.message.header.num_required_signatures)

\* The account addresses of one instruction of the transaction, before they
\* are rewritten
InputAccounts(tx, ix) ==
    CASE ix.kind = "partially_decoded" -> ix.accounts
      [] ix.kind = "parsed" -> parse_native_program(ix.program_id, ix.parsed).accounts
      [] OTHER ->
            LET Known(index) == index + 1 \in DOMAIN TxKeys(tx)
                known == SelectSeq(ix.accounts, Known)
            IN  [j \in 1..Len(known) |-> TxKeys(tx)[known[j] + 1]]

Decompiled == op = "parse_tx_to_json" /\ result.ok

EmittedInstruction(i) == result.v.o[S_instructions].a[i]

EmittedPubkey(i, j) == EmittedInstruction(i).o[S_accounts].a[j].o[S_pubkey]

\* "$k" for the k-th signer, the address for any other account
Placeholder(signers, address) ==
    IF address \in Range(signers)
    THEN Str(<<"$">> \o DigitsToStr(IntToDigits(
                 CHOOSE k \in 1..Len(signers) : signers[k] = address)))
    ELSE Str(address)

\* C13: when the account list holds a wallet, a mint and their
\* associated-token address, every occurrence of that address among the
\* accounts of any instruction is emitted as {type: ata, owner, mint}, the
\* owner as its signer placeholder when the wallet signs
C13_AtaDetected ==
    Decompiled =>
        LET tx == args.tx
            keys == Range(TxKeys(tx))
            derived == {d \in {[owner |-> w, mint |-> m, ata |-> ata_string(w, m)] :
                                  w \in keys, m \in keys} :
                            d.ata.some /\ d.ata.v \in keys}
            list == instructions_of(tx.message)
        IN  \A i \in 1..Len(list) :
                LET accounts == InputAccounts(tx, list[i])
                IN  /\ Len(EmittedInstruction(i).o[S_accounts].a) = Len(accounts)
                    /\ \A j \in 1..Len(accounts) : \A d \in derived :
                           d.ata.v = accounts[j] =>
                               EmittedPubkey(i, j) =
                                   Obj(S_type :> Str(S_ata)
                                       @@ S_owner :> Placeholder(TxSigners(tx), d.owner)
                                       @@ S_mint :> Str(d.mint))

\* a template with two instructions that both name the associated-token
\* address, one of an owner that signs
C13_AtaEmitted ==
    /\ Decompiled
    /\ Len(result.v.o[S_instructions].a) = 2
    /\ \A i \in 1..2 : \E j \in 1..Len(EmittedInstruction(i).o[S_accounts].a) :
           /\ IsObject(EmittedPubkey(i, j))
           /\ EmittedPubkey(i, j).o[S_mint] = Str(ADDR_B)
           /\ EmittedPubkey(i, j).o[S_owner] = Str(<<"$", "1">>)

\* C14: an instruction account that signs the transaction is emitted as
\* "$k", k its 1-based position among the signers; in an associated-token
\* descriptor the mint stays the address, also when the mint signs
C14_SignerPlaceholder ==
    Decompiled =>
        LET tx == args.tx
            list == instructions_of(tx.message)
        IN  \A i \in 1..Len(list) :
                LET accounts == InputAccounts(tx, list[i])
                IN  \A j \in 1..Len(accounts) :
                        /\ accounts[j] \in Range(TxSigners(tx)) =>
                               EmittedPubkey(i, j) = Placeholder(TxSigners(tx), accounts[j])
                        /\ IsObject(EmittedPubkey(i, j)) =>
                               /\ DOMAIN EmittedPubkey(i, j).o = {S_type, S_owner, S_mint}
                               /\ \E mint \in Range(TxKeys(tx)) :
                                      EmittedPubkey(i, j).o[S_mint] = Str(mint)

\* the second signer is emitted as "$2" beside a descriptor whose mint is
\* that signer's address
C14_MintSigns ==
    /\ Decompiled
    /\ ADDR_B \in Range(TxSigners(args.tx))
    /\ \E i \in 1..Len(result.v.o[S_instructions].a) :
           \E j, k \in 1..Len(EmittedInstruction(i).o[S_accounts].a) :
               /\ EmittedPubkey(i, j) = Str(<<"$", "2">>)
               /\ IsObject(EmittedPubkey(i, k))
               /\ EmittedPubkey(i, k).o[S_mint] = Str(ADDR_B)

\* the strings "$a" .. "$b"
Placeholders(a, b) == {Str(<<"$">> \o DigitsToStr(IntToDigits(k))) : k \in a..b}

IsPlaceholder(v) == IsString(v) /\ v.s # <<>> /\ Head(v.s) = "$"

\* C15: with n signers the signers list is "$n+1" .. "$2n" in order, and
\* the placeholders of the instruction accounts are among "$1" .. "$n"
C15_SignerNumbering ==
    Decompiled =>
        LET n == Len(TxSigners(args.tx))
            signers == result.v.o[S_signers].a
        IN  /\ Len(signers) = n
            /\ \A k \in 1..n : signers[k] = Str(<<"$">> \o DigitsToStr(IntToDigits(n + k)))
            /\ \A i \in 1..Len(result.v.o[S_instructions].a) :
                   \A j \in 1..Len(EmittedInstruction(i).o[S_accounts].a) :
                       /\ IsPlaceholder(EmittedPubkey(i, j)) =>
                              EmittedPubkey(i, j) \in Placeholders(1, n)
                       /\ (IsObject(EmittedPubkey(i, j))
                           /\ IsPlaceholder(EmittedPubkey(i, j).o[S_owner])) =>
                              EmittedPubkey(i, j).o[S_owner] \in Placeholders(1, n)

\* two signers: the list is "$3", "$4" and an instruction names "$2"
C15_TwoSigners ==
    /\ Decompiled
    /\ result.v.o[S_signers] = Arr(<<Str(<<"$", "3">>), Str(<<"$", "4">>)>>)
    /\ \E i \in 1..Len(result.v.o[S_instructions].a) :
           \E j \in 1..Len(EmittedInstruction(i).o[S_accounts].a) :
               EmittedPubkey(i, j) = Str(<<"$", "2">>)

\* the parsed system-program instructions of type transfer
IsSystemTransfer(ix) ==
    /\ ix.kind = "parsed"
    /\ ix.program_id = T_system
    /\ IsObject(ix.parsed)
    /\ Get(ix.parsed.o, S_type) = Some(Str(S_transfer))

\* {type: object, data: [{type: u32, data: 2}, {type: u64, data: lamports}]}
IsTransferData(data, lamports) ==
    data = Obj(S_type :> Str(S_object)
               @@ S_data :> Arr(<<Obj(S_type :> Str(S_u32) @@ S_data :> Num(<<2>>)),
                                  Obj(S_type :> Str(S_u64) @@ S_data :> lamports)>>))

\* the string under a key of the info, "" when there is none
InfoAddress(info, key) ==
    IF key \in DOMAIN info.o /\ IsString(info.o[key]) THEN info.o[key].s ELSE <<>>

\* the transfer template with the info's lamports, and the source and the
\* destination as the two accounts
TransferEmitted(i, ix) ==
    LET info == ix.parsed.o[S_info]
    IN  /\ IsTransferData(EmittedInstruction(i).o[S_data],
                          IF S_lamports \in DOMAIN info.o THEN info.o[S_lamports] ELSE Null)
        /\ Len(EmittedInstruction(i).o[S_accounts].a) = 2
        /\ EmittedPubkey(i, 1) = Placeholder(TxSigners(args.tx), InfoAddress(info, S_source))
        /\ EmittedPubkey(i, 2) =
               Placeholder(TxSigners(args.tx), InfoAddress(info, S_destination))

\* C16: every parsed system-program instruction of type transfer, its info
\* the JSON object that the parsed form of a transfer carries, is emitted
\* with the transfer template, the lamports of the info as the u64 (null
\* when the info has none), and the two accounts source, destination
C16_SystemTransfer ==
    Decompiled =>
        \A i \in 1..Len(args.tx.message.instructions) :
            LET ix == instructions_of(args.tx.message)[i]
            IN  (/\ IsSystemTransfer(ix)
                 /\ S_info \in DOMAIN ix.parsed.o
                 /\ IsObject(ix.parsed.o[S_info])) => TransferEmitted(i, ix)

\* a transfer of 1000 lamports from the signer is emitted
C16_TransferDecompiled ==
    /\ Decompiled
    /\ IsSystemTransfer(instructions_of(args.tx.message)[1])
    /\ IsTransferData(EmittedInstruction(1).o[S_data], Num(<<1, 0, 0, 0>>))
    /\ EmittedPubkey(1, 1) = Str(<<"$", "1">>)
    /\ EmittedPubkey(1, 2) = Str(ADDR_B)

Shorthands == {S_set_cu_limit, S_transfer, S_create_ata, S_close_ata}

AccountMeta(pubkey, is_signer, is_writable) ==
    [pubkey |-> pubkey, is_signer |-> is_signer, is_writable |-> is_writable]

\* the shorthand of the call has every field its builder takes, as a string
\* where the builder takes a string
HasFields(ix, strings, others) ==
    /\ \A key \in strings : key \in DOMAIN ix.extra /\ IsString(ix.extra[key])
    /\ \A key \in others : key \in DOMAIN ix.extra

\* C17: a shorthand program_id is expanded by its builder into a template
\* with a concrete program address, which is resolved and packed as any
\* other: set_cu_limit is u8 2, u32 limit, no accounts, for the
\* compute-budget program; transfer is u32 2, u64 amount, from (signer,
\* writable), to (writable), for the system program; create_ata is for the
\* associated-token program and close_ata for the token program
C17_ShorthandExpanded ==
    op = "parse_ix_from_json" =>
        LET ix == args.ix
            ps == args.params
            Resolved(name) == parse_pubkey(ix.extra[name], ps)
            AtaOf(owner, mint) ==
                find_program_address(<<owner, TOKEN_PROGRAM_ID, mint>>,
                                     ASSOCIATED_TOKEN_PROGRAM_ID)
        IN  /\ (ix.program_id \in Shorthands /\ result.ok) =>
                   result.v.program_id \in {COMPUTE_BUDGET_PROGRAM_ID, SYSTEM_PROGRAM_ID,
                                            ASSOCIATED_TOKEN_PROGRAM_ID, TOKEN_PROGRAM_ID}
            /\ (ix.program_id = S_set_cu_limit /\ HasFields(ix, {}, {S_limit})
                /\ ix.extra[S_limit].k = "num" /\ ix.extra[S_limit].n = "pos") =>
                   result = Ok([program_id |-> COMPUTE_BUDGET_PROGRAM_ID,
                                accounts |-> <<>>,
                                data |-> <<2>> \o to_le_bytes(ix.extra[S_limit].digits, 4)])
            /\ (ix.program_id = S_transfer /\ HasFields(ix, {S_from, S_to}, {S_amount})) =>
                   LET amount == pack_data(Obj(S_type :> Str(S_u64)
                                               @@ S_data :> ix.extra[S_amount]), ps)
                   IN  IF Resolved(S_from).ok /\ Resolved(S_to).ok /\ amount.ok
                       THEN result =
                                Ok([program_id |-> SYSTEM_PROGRAM_ID,
                                    accounts |-> <<AccountMeta(Resolved(S_from).v, TRUE, TRUE),
                                                   AccountMeta(Resolved(S_to).v, FALSE, TRUE)>>,
                                    data |-> <<2, 0, 0, 0>> \o amount.v])
                       ELSE ~result.ok
            /\ (ix.program_id = S_create_ata /\ HasFields(ix, {S_owner, S_mint}, {})) =>
                   IF Resolved(S_owner).ok /\ Resolved(S_mint).ok
                   THEN result =
                            Ok([program_id |-> ASSOCIATED_TOKEN_PROGRAM_ID,
                                accounts |->
                                    <<AccountMeta(Resolved(S_owner).v, TRUE, TRUE),
                                      AccountMeta(AtaOf(Resolved(S_owner).v, Resolved(S_mint).v),
                                                  FALSE, TRUE),
                                      AccountMeta(Resolved(S_owner).v, TRUE, TRUE),
                                      AccountMeta(Resolved(S_mint).v, FALSE, FALSE),
                                      AccountMeta(SYSTEM_PROGRAM_ID, FALSE, FALSE),
                                      AccountMeta(TOKEN_PROGRAM_ID, FALSE, FALSE)>>,
                                data |-> <<>>])
                   ELSE ~result.ok
            /\ (ix.program_id = S_close_ata /\ HasFields(ix, {S_owner, S_mint}, {})) =>
                   IF Resolved(S_owner).ok /\ Resolved(S_mint).ok
                   THEN result =
                            Ok([program_id |-> TOKEN_PROGRAM_ID,
                                accounts |->
                                    <<AccountMeta(AtaOf(Resolved(S_owner).v, Resolved(S_mint).v),
                                                  FALSE, TRUE),
                                      AccountMeta(Resolved(S_owner).v, TRUE, TRUE),
                                      AccountMeta(Resolved(S_owner).v, TRUE, TRUE)>>,
                                data |-> <<9>>])
                   ELSE ~result.ok

\* a transfer of 1000 lamports from the address of "$1" is packed
C17_TransferExpanded ==
    /\ op = "parse_ix_from_json"
    /\ args.ix.program_id = S_transfer
    /\ args.ix.extra[S_from] = Str(T_ref1)
    /\ result.ok
    /\ result.v.data = <<2, 0, 0, 0, 232, 3, 0, 0, 0, 0, 0, 0>>
    /\ result.v.accounts[1].is_signer /\ ~result.v.accounts[2].is_signer

----------------------------------------------------------------------------
(* C18 *)

\* the instructions of the template tx that carry the program id
InstructionsOf(tx, program_id) ==
    {i \in 1..Len(tx.instructions) : tx.instructions[i].program_id = program_id}

\* the template tx with the data of instruction idx read back through schema
DataRewritten(tx, idx, schema) ==
    [tx EXCEPT !.instructions[idx].data =
        unpack_data(pack_data(tx.instructions[idx].data, <<>>).v, schema, 0).v]

\* C18: a stored template changes only in a step of set_data_format that
\* succeeds.  After such a step the stored template, loaded again, is the
\* template stored before with the data of the first instruction of the
\* given program id replaced by unpack_data(pack_data(old data, []), schema,
\* 0): every other instruction, every program_id, accounts list and extra
\* key, the signers and the lookup_tables are as they were.  A step of
\* set_data_format that fails leaves the stored template as it is.
C18_OnlySetDataFormatRewrites ==
    [][/\ (stored.some /\ stored' # stored) => (op' = "set_data_format" /\ result'.ok)
       /\ (op' = "set_data_format") =>
            IF result'.ok
            THEN /\ raw_transaction_from_json(stored.v).ok
                 /\ raw_transaction_from_json(stored'.v).ok
                 /\ args'.data_format.ok
                 /\ \E idx \in InstructionsOf(raw_transaction_from_json(stored.v).v,
                                              args'.program_id) :
                        /\ \A k \in InstructionsOf(raw_transaction_from_json(stored.v).v,
                                                   args'.program_id) : idx <= k
                        /\ raw_transaction_from_json(stored'.v).v
                             = DataRewritten(raw_transaction_from_json(stored.v).v, idx,
                                             args'.data_format.v)
            ELSE stored' = stored]_vars

\* the first of two instructions of the token program has been rewritten
\* from hex text to a typed value, the second still holds its hex text and
\* the first its note
C18_FirstOfTwoRewritten ==
    /\ op = "set_data_format"
    /\ result.ok
    /\ args.program_id = T_token
    /\ InstructionsOf(raw_transaction_from_json(args.file).v, T_token) = {2, 4}
    /\ raw_transaction_from_json(args.file).v.instructions[2].data = Str(HEX_01ff)
    /\ raw_transaction_from_json(stored.v).v.instructions[2].data = Typed(S_u8, Num(<<1>>))
    /\ raw_transaction_from_json(stored.v).v.instructions[2].extra = (S_note :> Str(T_abc))
    /\ raw_transaction_from_json(stored.v).v.instructions[4].data = Str(HEX_02)
    /\ stored.v # args.file

----------------------------------------------------------------------------
(* C19 *)

\* parameter texts that are JSON arrays of typed values, each with the
\* array it spells and the bytes of its elements in order
ParamArrays ==
    {[text |-> T_json_u8_7,
      array |-> <<Typed(S_u8, Num(<<7>>))>>,
      bytes |-> <<7>>],
     [text |-> T_json_u16_u8,
      array |-> <<Typed(S_u16, Num(<<5, 0, 0>>)), Typed(S_u8, Str(T_ref2))>>,
      bytes |-> <<244, 1, 9>>]}

\* the references "$1" and "$2" with the parameter they name
ParamRefs == {[ref |-> T_ref1, index |-> 1], [ref |-> T_ref2, index |-> 2]}

\* C19: pack_data of an "object" value whose data is the reference "$N",
\* where parameter N is the text of a JSON array of typed values, gives what
\* pack_data gives for the object with that array written as its data: the
\* bytes of the elements in their order.
C19_ParamTextAsArray ==
    (op = "pack_data" /\ IsObject(args.value)
        /\ DOMAIN args.value.o = {S_type, S_data}
        /\ args.value.o[S_type] = Str(S_object))
    => \A r \in ParamRefs, e \in ParamArrays :
            (/\ args.value.o[S_data] = Str(r.ref)
             /\ r.index <= Len(args.params)
             /\ args.params[r.index] = e.text)
            => /\ result = pack_data(Typed(S_object, Arr(e.array)), args.params)
               /\ result = Ok(e.bytes)

\* the text with two elements, the second a reference itself, was packed
C19_TwoElementsPacked ==
    /\ op = "pack_data"
    /\ args.value = Typed(S_object, Str(T_ref1))
    /\ args.params = <<T_json_u16_u8, <<"9">>>>
    /\ result = Ok(<<244, 1, 9>>)

----------------------------------------------------------------------------
(* C20 *)

Digits(s) == \A i \in 1..Len(s) : s[i] \in Range(DecimalChars)

\* counted from the right end every fourth character of s, and no other, is
\* '_', and the others are decimal digits
GroupedInThrees(s) ==
    /\ Len(s) % 4 # 0 \/ s = <<>>
    /\ \A i \in 1..Len(s) :
          IF (Len(s) - i + 1) % 4 = 0 THEN s[i] = "_" ELSE s[i] \in Range(DecimalChars)

WithoutUnderscores(s) == SelectSeq(s, LAMBDA c : c # "_")

\* the text without a leading '-'
Unsigned(s) == IF s # <<>> /\ Head(s) = "-" THEN Tail(s) ELSE s

\* the index of the one '.' of s, 0 when s has none
DotOf(s) == IF \E i \in 1..Len(s) : s[i] = "." THEN CHOOSE i \in 1..Len(s) : s[i] = "." ELSE 0

\* the examples of the unit tests of utils.rs
FormatExamples ==
    {[amount |-> IntAmount(FALSE, <<0>>), text |-> <<"0">>],
     [amount |-> IntAmount(FALSE, <<1, 2, 3, 4, 5>>), text |-> <<"1", "2", "_", "3", "4", "5">>],
     [amount |-> IntAmount(FALSE, <<1, 2, 3, 4, 5, 6, 7, 8, 9>>),
      text |-> <<"1", "2", "3", "_", "4", "5", "6", "_", "7", "8", "9">>],
     [amount |-> IntAmount(TRUE, <<9, 8, 7, 6, 5, 4>>),
      text |-> <<"-", "9", "8", "7", "_", "6", "5", "4">>],
     [amount |-> TextAmount(<<"1", "2", "3", "4", "5", "6", "7", ".", "8", "9", "0", "1">>),
      text |-> <<"1", "_", "2", "3", "4", "_", "5", "6", "7", ".", "8", "_", "9", "0", "1">>]}

\* an integer: its digits
IsIntegerAmount(value) == value.kind = "int"

\* a decimal string: digits, one '.', digits, after an optional '-'
IsDecimalAmount(value) ==
    /\ value.kind = "str"
    /\ DotOf(Unsigned(value.s)) > 1
    /\ DotOf(Unsigned(value.s)) < Len(Unsigned(value.s))
    /\ Digits(SubSeq(Unsigned(value.s), 1, DotOf(Unsigned(value.s)) - 1))
    /\ Digits(SubSeq(Unsigned(value.s), DotOf(Unsigned(value.s)) + 1, Len(Unsigned(value.s))))

\* C20: format_amount of an integer is its decimal digits grouped in threes
\* from the right with '_' between the groups, after '-' when it is
\* negative; of a decimal string it is the integer part and the fractional
\* part, each grouped in threes from its own right end, around the '.';
\* the result without its underscores is the text of the input; the
\* examples of the unit tests give the texts the tests expect.
C20_GroupedInThrees ==
    (op = "format_amount") =>
        /\ \A e \in FormatExamples : args.value = e.amount => result = e.text
        /\ IsIntegerAmount(args.value) =>
              /\ GroupedInThrees(Unsigned(result))
              /\ (Head(result) = "-") <=> args.value.neg
              /\ WithoutUnderscores(Unsigned(result)) = DigitsToStr(args.value.digits)
        /\ IsDecimalAmount(args.value) =>
              /\ DotOf(Unsigned(result)) > 0
              /\ GroupedInThrees(SubSeq(Unsigned(result), 1, DotOf(Unsigned(result)) - 1))
              /\ GroupedInThrees(SubSeq(Unsigned(result), DotOf(Unsigned(result)) + 1,
                                        Len(Unsigned(result))))
              /\ WithoutUnderscores(result) = args.value.s

\* a decimal string with more than three digits on both sides of the '.'
\* and a sign has been formatted
C20_BothPartsGrouped ==
    /\ op = "format_amount"
    /\ args.value
         = TextAmount(<<"-", "1", "2", "3", "4", ".", "1", "2", "3", "4", "5", "6", "7">>)
    /\ result = <<"-", "1", "_", "2", "3", "4", ".", "1", "_", "2", "3", "4", "_", "5", "6", "7">>

----------------------------------------------------------------------------
(* C21 *)

\* the data text of an instruction that carries its data as a string
HasDataText(ix) == ix.kind \in {"compiled", "partially_decoded"}

\* C21: in a decompiled template the data of an instruction that came as a
\* string is that string decoded as base64, or as base58 when it is no
\* base64, written as "0x" and the bytes in hex when there are bytes, and the
\* string itself when there are none.
C21_Base64ThenBase58 ==
    Decompiled =>
        \A i \in 1..Len(instructions_of(args.tx.message)) :
            HasDataText(instructions_of(args.tx.message)[i]) =>
                EmittedInstruction(i).o[S_data]
                    = block_data_value(instructions_of(args.tx.message)[i].data)

----------------------------------------------------------------------------
(* C22 *)

IsByte(b) == b \in 0..255

RECURSIVE Concatenated(_)
Concatenated(seqs) == IF seqs = <<>> THEN <<>> ELSE Head(seqs) \o Concatenated(Tail(seqs))

PackTags == {S_u8, S_u16, S_u32, S_u64, S_pubkey, S_string, S_bytes, S_object}

\* the text is "0x" and hex digits, two for each byte
ValidHex(text) ==
    /\ Len(text) >= 2 /\ SubSeq(text, 1, 2) = <<"0", "x">>
    /\ hex_decode(SubSeq(text, 3, Len(text))).some

ValidBase64(text) == base64_decode(text).some

\* the text the string arm decodes: the value resolved, and resolved again
StringText(value, ps) == resolve_value(resolve_value(value, ps), ps).s

\* C22: pack_data returns the whole buffer or an error that carries no
\* bytes.  An object whose type is a string outside the tags of pack_data
\* gives the unsupported-type error; a string whose text is neither "0x"
\* with hex digits nor base64 gives an invalid-encoding error; an "object"
\* over a list gives the bytes of all its elements one after the other when
\* every element packs, and otherwise the error of the first element, in the
\* order of the list, that does not pack.  (The value and the parameters are
\* borrowed immutably: the call cannot change them.)
C22_AllOrNothing ==
    (op = "pack_data") =>
        /\ IF result.ok THEN DOMAIN result = {"ok", "v"} /\ \A i \in 1..Len(result.v) : IsByte(result.v[i])
           ELSE "v" \notin DOMAIN result
        /\ (IsObject(args.value) /\ S_type \in DOMAIN args.value.o
               /\ IsString(args.value.o[S_type]) /\ args.value.o[S_type].s \notin PackTags)
           => result = Err("Unsupported data object type")
        /\ (IsString(args.value) /\ ~ValidHex(StringText(args.value, args.params))
               /\ ~ValidBase64(StringText(args.value, args.params)))
           => result \in {Err("Invalid hex string"), Err("Invalid base64 string")}
        /\ (IsObject(args.value) /\ DOMAIN args.value.o = {S_type, S_data}
               /\ args.value.o[S_type] = Str(S_object) /\ IsArray(args.value.o[S_data]))
           => LET list == args.value.o[S_data].a
                  packs == [i \in 1..Len(list) |-> pack_data(list[i], args.params)]
                  failing == {i \in 1..Len(list) : ~packs[i].ok}
              IN  IF failing = {}
                  THEN result = Ok(Concatenated([i \in 1..Len(list) |-> packs[i].v]))
                  ELSE result = packs[CHOOSE i \in failing : \A k \in failing : i <= k]

\* an object whose second and third elements fail in different ways has
\* returned the error of the second, after a first element that packs
C22_FirstErrorReturned ==
    /\ op = "pack_data"
    /\ args.value = Typed(S_object, Arr(<<Typed(S_u8, Num(<<1>>)), Str(T_hello),
                                          Typed(S_ata, Num(<<1>>))>>))
    /\ result = Err("Invalid base64 string")

----------------------------------------------------------------------------
(* C23 *)

\* the count of a number literal that fits the buffers drawn here
SmallCount(digits) == Len(digits) <= 3

\* C23: pack_data of a literal without a type tag: a non-negative integer
\* n gives n bytes, all zero; null gives no bytes; a boolean gives the one
\* byte 1 or 0; a negative number and a number with a fraction give an error.
C23_LiteralKinds ==
    (op = "pack_data") =>
        /\ (args.value.k = "num" /\ args.value.n = "pos") =>
              /\ result.ok
              /\ \A i \in 1..Len(result.v) : result.v[i] = 0
              /\ SmallCount(args.value.digits) =>
                    Len(result.v) = DigitsToInt(args.value.digits, 0)
        /\ (args.value = Null) => result = Ok(<<>>)
        /\ (args.value.k = "bool") => result = Ok(<<IF args.value.b THEN 1 ELSE 0>>)
        /\ (args.value.k = "num" /\ args.value.n \in {"neg", "float"}) =>
              (~result.ok /\ "err" \in DOMAIN result)

----------------------------------------------------------------------------
(* C24 *)

\* a decimal numeral modulo m, digit by digit
RECURSIVE ModOf(_, _, _)
ModOf(digits, m, acc) ==
    IF digits = <<>> THEN acc ELSE ModOf(Tail(digits), m, (acc * 10 + Head(digits)) % m)

\* the low 8 bits of the two's complement of an integer
LowEightBits(neg, digits) ==
    LET low == ModOf(digits, 256, 0)
    IN  IF neg THEN (256 - low) % 256 ELSE low

InI64(neg, digits) ==
    ~DecGreater(Canon(digits), IF neg THEN I64_MIN_MAGNITUDE ELSE I64_MAX)

Signed(s) == s # <<>> /\ Head(s) \in {"+", "-"}

Magnitude(s) == IF Signed(s) THEN Tail(s) ELSE s

NumericText(s) ==
    /\ Magnitude(s) # <<>>
    /\ AllIn(Magnitude(s), DecimalChars)
    /\ InI64(Head(s) = "-", StrToDigits(Magnitude(s)))

\* the entry is a signed 64-bit integer: a number, a numeric text, a boolean
Coercible(e) ==
    \/ e.k = "bool"
    \/ e.k = "num" /\ e.n \in {"pos", "neg"} /\ InI64(e.n = "neg", e.digits)
    \/ e.k = "str" /\ NumericText(e.s)

EntryByte(e) ==
    CASE e.k = "bool" -> IF e.b THEN 1 ELSE 0
      [] e.k = "num" -> LowEightBits(e.n = "neg", e.digits)
      [] e.k = "str" -> LowEightBits(Head(e.s) = "-", StrToDigits(Magnitude(e.s)))

ResolvedEntries(items, ps) == [i \in 1..Len(items) |-> resolve_value(items[i], ps)]

\* C24: pack_data of an array gives one byte per entry, in order: the
\* entry after parameter resolution (a number, a numeric text, or a boolean
\* as 1/0) as a signed 64-bit integer, cut to its low 8 bits, so 256 gives 0
\* and -1 gives 255; an entry of any other kind fails the whole call.
C24_OneBytePerEntry ==
    (op = "pack_data" /\ args.value.k = "arr") =>
        LET es == ResolvedEntries(args.value.a, args.params)
        IN  /\ (\A i \in 1..Len(es) : Coercible(es[i])) =>
                  result = Ok([i \in 1..Len(es) |-> EntryByte(es[i])])
            /\ (\E i \in 1..Len(es) : ~Coercible(es[i])) => ~result.ok
            /\ (\E i \in 1..Len(es) : es[i].k \in {"null", "arr", "obj"}) =>
                  (~result.ok /\ "err" \in DOMAIN result)
            /\ args.value = Arr(<<Num(<<2, 5, 6>>), NegNum(<<1>>)>>) =>
                  result = Ok(<<0, 255>>)

C24_TruncatedEntries ==
    /\ op = "pack_data"
    /\ args.value = Arr(<<Str(T_ref2), NegNum(<<2, 5, 7>>)>>)
    /\ args.params = <<T_json_u16_u8, <<"9">>>>
    /\ result = Ok(<<9, 255>>)

----------------------------------------------------------------------------
(* C25 *)

\* the number a schema declares under a key, when it declares one
Declared(sch, key) ==
    IF IsObject(sch) /\ key \in DOMAIN sch.o /\ sch.o[key].k = "num"
          /\ sch.o[key].n = "pos" /\ Len(sch.o[key].digits) <= 3
    THEN Some(DigitsToInt(sch.o[key].digits, 0)) ELSE None

IsBytesSchema(sch) ==
    IsObject(sch) /\ S_type \in DOMAIN sch.o /\ sch.o[S_type] = Str(S_bytes)

IsStringSchema(sch) ==
    IsObject(sch) /\ S_type \in DOMAIN sch.o /\ sch.o[S_type] = Str(S_string)

\* the schema's fields, with the width under `key` and the data replaced
Echo(sch, key, k, data) ==
    Obj([f \in DOMAIN sch.o \cup {key, S_data} |->
            IF f = key THEN Num(IntToDigits(k))
            ELSE IF f = S_data THEN data
            ELSE sch.o[f]])

BytesRead(k) == SubSeq(args.buffer, args.offset + 1, args.offset + k)

\* C25: a bytes schema that declares `size` = k, and a string schema that
\* declares `length` = k, read exactly the k bytes at the offset when k
\* remain: the result echoes the schema with its type, the width k and a
\* data field of those bytes, and get_byte_length of the result is k.
C25_DeclaredSizeRead ==
    (op = "unpack_data") =>
        /\ (IsBytesSchema(args.schema) /\ Declared(args.schema, S_size).some
              /\ args.offset + Declared(args.schema, S_size).v <= Len(args.buffer)) =>
              LET k == Declared(args.schema, S_size).v
              IN  /\ result.ok
                  /\ result.v = Echo(args.schema, S_size, k,
                                     Str(base64_encode(BytesRead(k))))
                  /\ base64_decode(result.v.o[S_data].s) = Some(BytesRead(k))
                  /\ get_byte_length(result.v) = Ok(k)
        /\ (IsStringSchema(args.schema) /\ Declared(args.schema, S_length).some
              /\ args.offset + Declared(args.schema, S_length).v <= Len(args.buffer)) =>
              LET k == Declared(args.schema, S_length).v
              IN  /\ result.ok
                  /\ result.v = Echo(args.schema, S_length, k,
                                     Str([i \in 1..k |-> utf8_char(BytesRead(k)[i])]))
                  /\ get_byte_length(result.v) = Ok(k)

----------------------------------------------------------------------------
(* C26 *)

IsObjectSchema(sch) ==
    /\ IsObject(sch)
    /\ S_type \in DOMAIN sch.o /\ sch.o[S_type] = Str(S_object)
    /\ S_data \in DOMAIN sch.o /\ IsArray(sch.o[S_data])

IsListSchema(sch) == IsArray(sch) \/ IsObjectSchema(sch)

\* the fields of an array schema or an object schema, and of its result
FieldsOf(v) == IF IsArray(v) THEN v.a ELSE v.o[S_data].a

\* the sum of get_byte_length over the first n decoded results
RECURSIVE DecodedLength(_, _)
DecodedLength(decoded, n) ==
    IF n = 0 THEN 0
    ELSE DecodedLength(decoded, n - 1) + get_byte_length(decoded[n]).v

\* the result res of schema sch decodes each field where the lengths of the
\* fields before it end, a field that is a list in the same way
RECURSIVE Threaded(_, _, _, _)
Threaded(buf, sch, off, res) ==
    IF IsListSchema(sch) THEN
        /\ IsArray(res) = IsArray(sch)
        /\ Len(FieldsOf(res)) = Len(FieldsOf(sch))
        /\ \A i \in 1..Len(FieldsOf(sch)) :
              /\ get_byte_length(FieldsOf(res)[i]).ok
              /\ Threaded(buf, FieldsOf(sch)[i],
                          off + DecodedLength(FieldsOf(res), i - 1), FieldsOf(res)[i])
    ELSE
        /\ unpack_data(buf, sch, off) = Ok(res)
        /\ off + get_byte_length(res).v <= Len(buf)
        /\ sch.o[S_type].s \in {S_u8, S_u16, S_u32, S_u64, S_boolean} =>
              res.o[S_data] =
                  unpack_scalar(sch.o[S_type].s,
                                SubSeq(buf, off + 1, off + get_byte_length(res).v))

\* C26: in an array schema and in an object schema, field i is decoded at
\* the offset plus the sum of get_byte_length of the decoded results of the
\* fields before it (an object inside counting the sum of its own fields),
\* so consecutive fields read adjacent byte ranges, and the results come in
\* schema order.
C26_CursorThreading ==
    (op = "unpack_data" /\ IsListSchema(args.schema) /\ result.ok) =>
        Threaded(args.buffer, args.schema, args.offset, result.v)

C26_NestedFieldsAdjacent ==
    /\ op = "unpack_data"
    /\ args.buffer = <<1, 2, 3, 4, 5, 6, 7, 8>>
    /\ args.offset = 1
    /\ args.schema = Arr(<<Field(S_u8), Typed(S_object, Arr(<<Field(S_u16), Field(S_u8)>>)),
                           Field(S_u16)>>)
    /\ result.ok
    /\ result.v.a[1].o[S_data] = Num(<<2>>)
    /\ result.v.a[2].o[S_data].a[1].o[S_data] = Num(<<1, 0, 2, 7>>)
    /\ result.v.a[2].o[S_data].a[2].o[S_data] = Num(<<5>>)
    /\ result.v.a[3].o[S_data] = Num(<<1, 7, 9, 8>>)

----------------------------------------------------------------------------
(* C27 *)

\* C27: parse_pubkey terminates with an address or an error for every
\* descriptor and every parameter list, also when the text of a parameter
\* is itself a placeholder of another parameter, as "$1" under the
\* parameters "$2", "$1".
C27_ParsePubkeyReturns ==
    (op = "parse_pubkey") =>
        /\ result # NoReturn
        /\ \/ result.ok /\ Len(result.v) = PUBKEY_BYTES
           \/ ~result.ok /\ "err" \in DOMAIN result

----------------------------------------------------------------------------
(* C28 *)

\* the quotient of a decimal numeral by a small m, by long division
RECURSIVE QuotOf(_, _, _, _)
QuotOf(digits, m, rem, acc) ==
    IF digits = <<>> THEN acc
    ELSE QuotOf(Tail(digits), m, (rem * 10 + Head(digits)) % m,
                Append(acc, (rem * 10 + Head(digits)) \div m))

\* the numeral without its low n bytes
RECURSIVE WithoutLowBytes(_, _)
WithoutLowBytes(digits, n) ==
    IF n = 0 THEN digits ELSE WithoutLowBytes(QuotOf(digits, 256, 0, <<>>), n - 1)

\* the little-endian encoding of v mod 2^(8 * width)
LowBytesLE(v, width) == [i \in 1..width |-> ModOf(WithoutLowBytes(v, i - 1), 256, 0)]

\* v is below 2^(8 * width)
FitsWidth(v, width) == \A i \in 1..Len(WithoutLowBytes(v, width)) : WithoutLowBytes(v, width)[i] = 0

TagWidth(kind) ==
    CASE kind = S_u8 -> 1 [] kind = S_u16 -> 2 [] kind = S_u32 -> 4 [] kind = S_u64 -> 8

\* a value tagged u8, u16, u32 or u64 whose data is an unsigned 64-bit
\* integer: a number, a numeral as text, a boolean
IsIntegerField(value, ps) ==
    /\ IsObject(value)
    /\ DOMAIN value.o = {S_type, S_data}
    /\ value.o[S_type] \in {Str(S_u8), Str(S_u16), Str(S_u32), Str(S_u64)}
    /\ parse_u64(resolve_value(value.o[S_data], ps)).ok

DataOf(value, ps) == parse_u64(resolve_value(value.o[S_data], ps)).v

\* C28: pack_data of a u8, u16 or u32 whose data v is 2^w or more does not
\* fail: the bytes are the little-endian encoding of v mod 2^w, and the
\* unpacker reads v mod 2^w from them, not v; for v below 2^w, and for every
\* u64, the bytes are the little-endian encoding of v itself.
C28_WrapsModuloWidth ==
    /\ (op = "pack_data" /\ IsIntegerField(args.value, args.params)) =>
          LET w == TagWidth(args.value.o[S_type].s)
              v == DataOf(args.value, args.params)
          IN  /\ result = Ok(LowBytesLE(v, w))
              /\ FitsWidth(v, w) <=> from_le_bytes(result.v) = v
              /\ w = 8 => FitsWidth(v, w)
    /\ (op = "unpack_data" /\ args.schema = packed.value /\ args.buffer = packed.bytes
          /\ IsIntegerField(packed.value, packed.params)
          /\ packed.value.o[S_type] # Str(S_u64)) =>
          LET w == TagWidth(packed.value.o[S_type].s)
              v == DataOf(packed.value, packed.params)
          IN  /\ result.ok
              /\ result.v.o[S_data] = Num(from_le_bytes(LowBytesLE(v, w)))
              /\ ~FitsWidth(v, w) => result.v.o[S_data] # Num(v)

C28_WrappedValueUnpacked ==
    /\ op = "unpack_data"
    /\ packed.value = Typed(S_u32, Num(TWO_POW_32_PLUS_7))
    /\ packed.bytes = <<7, 0, 0, 0>>
    /\ args.schema = packed.value
    /\ result.ok
    /\ result.v.o[S_data] = Num(<<7>>)

----------------------------------------------------------------------------
(* C29 *)

\* LE32(2) followed by LE64 of the lamports
TransferBytes(lamports) == <<2, 0, 0, 0>> \o LowBytesLE(lamports.digits, 8)

\* C29: for every lamports amount L below 2^64, packing the data template
\* the decompiler emits for a system transfer of L gives the 12 bytes LE32(2)
\* then LE64(L), the same bytes as packing the data of the `transfer`
\* shorthand built with the amount L.
C29_TransferBytesAgree ==
    /\ (op = "parse_native_program" /\ args.program_id = T_system
          /\ \E l \in TransferAmounts \cup Lamports :
                args.parsed = Obj(S_type :> Str(S_transfer) @@ S_info :> TransferInfo(l))) =>
          /\ result.data.some
          /\ result.data.v = transfer_tx(ADDR_A, ADDR_B, args.parsed.o[S_info].o[S_lamports]).data
    /\ (op = "parse_ix_from_json") =>
          \A l \in TransferAmounts :
              (args.ix \in {DecompiledTransfer(l), TransferShorthand(l)}) =>
                  /\ result.ok
                  /\ Len(result.v.data) = 12
                  /\ result.v.data = TransferBytes(l)
                  /\ from_le_bytes(SubSeq(result.v.data, 5, 12)) = l.digits

C29_LargestTransferPacked ==
    /\ op = "parse_ix_from_json"
    /\ args.ix = DecompiledTransfer(Num(U64_MAX))
    /\ result.ok
    /\ result.v.data = <<2, 0, 0, 0, 255, 255, 255, 255, 255, 255, 255, 255>>
    /\ result.v.data
          = parse_ix_from_json(TransferShorthand(Num(U64_MAX)), args.params).v.data

----------------------------------------------------------------------------
(* C30 *)

\* the template of the file, the index of the first instruction of the
\* program in it (0 when there is none), and that instruction's data packed
LoadedTemplate(a) == raw_transaction_from_json(a.file)

MatchedIndex(a) == first_of_program(LoadedTemplate(a).v, a.program_id)

PackedData(a) == pack_data(LoadedTemplate(a).v.instructions[MatchedIndex(a)].data, <<>>)

Loaded(a) == LoadedTemplate(a).ok /\ a.data_format.ok

NoneMatches(a) == Loaded(a) /\ InstructionsOf(LoadedTemplate(a).v, a.program_id) = {}

PackFails(a) == Loaded(a) /\ MatchedIndex(a) > 0 /\ ~PackedData(a).ok

UnpackFails(a) ==
    /\ Loaded(a) /\ MatchedIndex(a) > 0 /\ PackedData(a).ok
    /\ ~unpack_data(PackedData(a).v, a.data_format.v, 0).ok

\* C30: set_data_format leaves the stored template as it was whenever it
\* returns an error: when no instruction has the program id, when packing
\* the data of the matched instruction fails, and when unpacking the packed
\* bytes under the schema fails, it returns the error and writes nothing.
C30_ErrorWritesNothing ==
    [][(op' = "set_data_format") =>
          /\ args'.file = stored.v
          /\ NoneMatches(args') =>
                /\ result' = Err("Program ID not found in transaction instructions.")
                /\ stored' = stored
          /\ PackFails(args') => (result' = PackedData(args') /\ stored' = stored)
          /\ UnpackFails(args') =>
                /\ result' = unpack_data(PackedData(args').v, args'.data_format.v, 0)
                /\ stored' = stored
          /\ ~result'.ok => stored' = stored
          /\ result'.ok => ~(NoneMatches(args') \/ PackFails(args') \/ UnpackFails(args'))]_vars

\* the first token instruction holds hex text that does not pack: the call
\* has failed on it, and the file still holds the text
C30_PackFailureKept ==
    /\ op = "set_data_format"
    /\ args.program_id = T_token
    /\ PackFails(args)
    /\ result = Err("Invalid hex string")
    /\ stored = Some(args.file)
    /\ raw_transaction_from_json(stored.v).v.instructions[1].data = Str(HEX_0xz)

====
